---- MODULE Spec2Model ----
(***************************************************************************)
(* Model of the paper-trading bot of supabase/functions/trading-bot:       *)
(* the request handler (toggle, reset, reset_balance, update_config, the   *)
(* inactive status reply and the trading tick), the entry gate of          *)
(* analyzeMarket and validateRiskReward.                                   *)
(*                                                                         *)
(* Numbers of the program are JavaScript doubles; they are modelled as     *)
(* exact rationals <<numerator, denominator>> in lowest terms, so that     *)
(* quantity = notional / price, pnl and pnl_pct are computed as written    *)
(* and not rounded.  A null column is the pair <<0, 0>>.                   *)
(***************************************************************************)
EXTENDS Integers, Sequences, FiniteSets, TLC

VARIABLES bot_config, bot_positions, bot_trades, bot_logs, nextId, response,
          settlements, served, request, fault, ticks, call

(* bot_config, bot_positions, bot_trades: the rows of the tables.          *)
(* bot_logs: the rows the latest request appended to the append-only       *)
(*   bot_logs table; no decision reads the table, older rows are dropped.  *)
(* nextId: the id the next inserted position gets.                         *)
(* response: the JSON the latest request answered with.                    *)
(* settlements: the ids of the positions whose margin and pnl were applied *)
(*   to the balance (balance -= margin, balance += margin + pnl), in order.*)
(* served: the number of requests served.                                  *)
(* request: the action field of the body of the latest request.            *)
(* fault: the call that failed while the latest request was served,        *)
(*   "none" when every call succeeded.                                     *)
(* ticks: for each invocation that runs concurrently with others, its      *)
(*   position in the trading logic and its local variables.                *)
(* call: the arguments and the result of a call of a pure function.        *)
vars == <<bot_config, bot_positions, bot_trades, bot_logs, nextId, response,
          settlements, served, request, fault, ticks, call>>

----------------------------------------------------------------------------
(* Bounds of the model *)

\* number of requests the handler serves in a behaviour
MaxRequests == 3

\* highest price level passed to validateRiskReward
MaxLevel == 6

----------------------------------------------------------------------------
(* Rational arithmetic *)

RECURSIVE GCD(_, _)
GCD(a, b) == IF b = 0 THEN a ELSE GCD(b, a % b)

IAbs(i) == IF i < 0 THEN -i ELSE i

\* the rational n/d in lowest terms with a positive denominator
Q(n, d) ==
  LET g == GCD(IAbs(n), IAbs(d))
      s == IF d < 0 THEN -1 ELSE 1
  IN  <<(s * n) \div g, (s * d) \div g>>

Num(i) == <<i, 1>>

Null == <<0, 0>>

LCM(a, b) == (a \div GCD(a, b)) * b

RAdd(a, b) ==
  LET l == LCM(a[2], b[2])
  IN  Q(a[1] * (l \div a[2]) + b[1] * (l \div b[2]), l)

RNeg(a) == <<-a[1], a[2]>>

RSub(a, b) == RAdd(a, RNeg(b))

RMul(a, b) ==
  LET g1 == GCD(IAbs(a[1]), b[2])
      g2 == GCD(IAbs(b[1]), a[2])
  IN  Q((a[1] \div g1) * (b[1] \div g2), (a[2] \div g2) * (b[2] \div g1))

\* b is not zero
RDiv(a, b) == RMul(a, Q(b[2], b[1]))

RLe(a, b) ==
  LET l == LCM(a[2], b[2])
  IN  a[1] * (l \div a[2]) <= b[1] * (l \div b[2])

RLt(a, b) == RLe(a, b) /\ a # b

RAbs(a) == <<IAbs(a[1]), a[2]>>

RMax(a, b) == IF RLe(a, b) THEN b ELSE a

RMin(a, b) == IF RLe(a, b) THEN a ELSE b

RFloor(a) == a[1] \div a[2]

\* Number(x): a null column reads as 0
Number(x) == IF x = Null THEN Num(0) ELSE x

\* JavaScript truthiness of a number: neither 0 nor null
Truthy(x) == x # Null /\ x[1] # 0

----------------------------------------------------------------------------
(* analyzeMarket: the entry gate.  The detectors (chop zone, low volume,    *)
(* support/resistance context, the five keys) are inputs here; the        *)
(* decision on them is the code's.                                         *)

REQUIRED_KEYS == 3

\* a > b of two JavaScript numbers: false when either is NaN or undefined
JsGt(a, b) == a # Null /\ b # Null /\ RLt(b, a)

guardrail_longOnly(bias, lastRsi) ==
  IF bias = "bullish" /\ JsGt(lastRsi, Num(75)) THEN "long" ELSE ""

\* RSI guardrail: the side whose entry the latest RSI blocks, "" for none
guardrail(bias, lastRsi) ==
  IF bias = "bullish" /\ JsGt(lastRsi, Num(75)) THEN "long"
  ELSE IF bias = "bearish" /\ JsGt(Num(25), lastRsi) THEN "short"
  ELSE ""

analyzeMarket(in) ==
  IF in.chopZone \/ in.lowVolume
  THEN [bias |-> "neutral", score |-> Num(0), rsi |-> in.rsi,
        macdHist |-> in.macdHist, atr |-> in.atr, entryAllowed |-> FALSE,
        skipReason |-> IF in.chopZone THEN "Chop Zone" ELSE "Low volume"]
  ELSE
    LET bullOk == in.bullKeys >= REQUIRED_KEYS /\ in.longContext
        bearOk == in.bearKeys >= REQUIRED_KEYS /\ in.shortContext
        bias0 == IF bullOk THEN "bullish" ELSE IF bearOk THEN "bearish" ELSE "neutral"
        skip0 == IF bullOk \/ bearOk THEN ""
                 ELSE IF in.bullKeys >= REQUIRED_KEYS /\ ~in.longContext
                      THEN "no long context"
                 ELSE IF in.bearKeys >= REQUIRED_KEYS /\ ~in.shortContext
                      THEN "no short context"
                 ELSE "conditions met below required"
        guardLong == guardrail(bias0, in.rsi) = "long"
        guardShort == guardrail(bias0, in.rsi) = "short"
        bias == IF guardLong \/ guardShort THEN "neutral" ELSE bias0
        skipReason == IF guardLong THEN "RSI guardrail: RSI > 75"
                      ELSE IF guardShort THEN "RSI guardrail: RSI < 25"
                      ELSE skip0
    IN  [bias |-> bias,
         score |-> IF bias = "bullish" THEN Q(1, 2)
                   ELSE IF bias = "bearish" THEN Q(-1, 2) ELSE Num(0),
         rsi |-> in.rsi, macdHist |-> in.macdHist, atr |-> in.atr,
         entryAllowed |-> (bullOk \/ bearOk) /\ ~(guardLong \/ guardShort),
         skipReason |-> skipReason]

\* a quiet market: context on both sides, no key, mid-range RSI
Quiet ==
  [chopZone |-> FALSE, lowVolume |-> FALSE,
   longContext |-> TRUE, shortContext |-> TRUE,
   bullKeys |-> 0, bearKeys |-> 0,
   rsi |-> Num(50), macdHist |-> Num(1), atr |-> Num(12)]

\* what the detectors and indicators report at the latest candle
MarketInputs ==
  { Quiet,
    [Quiet EXCEPT !.macdHist = Num(-1), !.atr = Num(0)],
    [Quiet EXCEPT !.rsi = Num(80)],
    [Quiet EXCEPT !.rsi = Num(20), !.macdHist = Num(-1)],
    [Quiet EXCEPT !.bullKeys = 3],
    [Quiet EXCEPT !.bearKeys = 3, !.macdHist = Num(-1)],
    [Quiet EXCEPT !.bullKeys = 3, !.rsi = Num(80)],
    [Quiet EXCEPT !.bearKeys = 3, !.rsi = Num(20)],
    [Quiet EXCEPT !.bullKeys = 3, !.rsi = Num(20)],
    [Quiet EXCEPT !.bearKeys = 3, !.rsi = Num(80), !.macdHist = Num(-1)],
    [Quiet EXCEPT !.bullKeys = 3, !.longContext = FALSE],
    [Quiet EXCEPT !.bearKeys = 3, !.shortContext = FALSE],
    [Quiet EXCEPT !.bullKeys = 3, !.chopZone = TRUE],
    [Quiet EXCEPT !.bearKeys = 3, !.lowVolume = TRUE] }

Analyses == {analyzeMarket(in) : in \in MarketInputs}

\* close of the latest candle
Prices == {50, 90, 100, 108}

----------------------------------------------------------------------------
(* validateRiskReward *)

MinRatio == 2

validateRiskReward_strict(side, entryPrice, stopLoss, takeProfit, minRatio) ==
  LET risk == RAbs(RSub(entryPrice, stopLoss))
      reward == RAbs(RSub(takeProfit, entryPrice))
  IN  IF risk = Num(0) THEN [valid |-> FALSE, ratio |-> Num(0)]
      ELSE [valid |-> RLt(Num(minRatio), RDiv(reward, risk)),
            ratio |-> RDiv(reward, risk)]

validateRiskReward(side, entryPrice, stopLoss, takeProfit, minRatio) ==
  LET risk == RAbs(RSub(entryPrice, stopLoss))
      reward == RAbs(RSub(takeProfit, entryPrice))
  IN  IF risk = Num(0) THEN [valid |-> FALSE, ratio |-> Num(0)]
      ELSE [valid |-> RLe(Num(minRatio), RDiv(reward, risk)),
            ratio |-> RDiv(reward, risk)]

----------------------------------------------------------------------------
(* Rows of the tables *)

logRow(level, message, detail) ==
  [level |-> level, message |-> message, detail |-> detail]

tradeRow(position_id, action, price, quantity, pnl, balance_after) ==
  [position_id |-> position_id, action |-> action, price |-> price,
   quantity |-> quantity, pnl |-> pnl, balance_after |-> balance_after]

\* supabase .update(patch).eq('id', id) on bot_positions
updateById(rows, id, patch) ==
  [i \in 1..Len(rows) |->
     IF rows[i].id = id
     THEN [k \in DOMAIN rows[i] |-> IF k \in DOMAIN patch THEN patch[k] ELSE rows[i][k]]
     ELSE rows[i]]

\* the select without its status filter
selectOpen_all(rows) == rows

\* supabase .select().eq('status', 'open')
RECURSIVE selectOpen(_)
selectOpen(rows) ==
  IF rows = <<>> THEN <<>>
  ELSE IF Head(rows).status = "open"
       THEN <<Head(rows)>> \o selectOpen(Tail(rows))
       ELSE selectOpen(Tail(rows))

\* supabase .delete().eq('status', 'open')
RECURSIVE deleteOpen(_)
deleteOpen(rows) ==
  IF rows = <<>> THEN <<>>
  ELSE IF Head(rows).status = "open"
       THEN deleteOpen(Tail(rows))
       ELSE <<Head(rows)>> \o deleteOpen(Tail(rows))

----------------------------------------------------------------------------
(* The tick: evaluation of one open position *)

\* the long formula used for both sides
unrealizedPnl_longOnly(pos, currentPrice) ==
  RMul(RSub(currentPrice, pos.entry_price), pos.quantity)

unrealizedPnl(pos, currentPrice) ==
  IF pos.side = "long"
  THEN RMul(RSub(currentPrice, pos.entry_price), pos.quantity)
  ELSE RMul(RSub(pos.entry_price, currentPrice), pos.quantity)

pnlPctOf(pnl, margin) == RMul(RDiv(pnl, margin), Num(100))

liquidationHit(pnlPct) == RLe(pnlPct, Num(-90))

stopLossHit(pos, currentPrice) ==
  LET currentSL == Number(pos.stop_loss)
  IN  Truthy(currentSL) /\
      \/ pos.side = "long" /\ RLe(currentPrice, currentSL)
      \/ pos.side = "short" /\ RLe(currentSL, currentPrice)

takeProfitHit(pos, currentPrice) ==
  LET currentTP == Number(pos.take_profit)
  IN  Truthy(currentTP) /\
      \/ pos.side = "long" /\ RLe(currentTP, currentPrice)
      \/ pos.side = "short" /\ RLe(currentPrice, currentTP)

\* the short side's Math.min used for a long as well
trailingStop_minForLong(pos, currentPrice, pnlPct, currentAtr) ==
  LET currentSL == Number(pos.stop_loss)
      breakEvenSL == pos.entry_price
      trailingSteps == RFloor(RMul(RSub(pnlPct, Num(1)), Num(2)))
      offset == RMul(Q(3, 2), currentAtr)
  IN  IF ~RLe(Num(1), pnlPct) THEN currentSL
      ELSE IF pos.side = "long"
      THEN RMin(RMin(currentSL, breakEvenSL),
                IF trailingSteps > 0 THEN RSub(currentPrice, offset) ELSE breakEvenSL)
      ELSE RMin(RMin(currentSL, breakEvenSL),
                IF trailingSteps > 0 THEN RAdd(currentPrice, offset) ELSE breakEvenSL)

\* the stop after the ATR trailing step (newSL)
trailingStop(pos, currentPrice, pnlPct, currentAtr) ==
  LET currentSL == Number(pos.stop_loss)
      breakEvenSL == pos.entry_price
      \* Math.floor((profitPctRaw - 1) / 0.5)
      trailingSteps == RFloor(RMul(RSub(pnlPct, Num(1)), Num(2)))
      offset == RMul(Q(3, 2), currentAtr)
  IN  IF ~RLe(Num(1), pnlPct) THEN currentSL
      ELSE IF pos.side = "long"
      THEN RMax(RMax(currentSL, breakEvenSL),
                IF trailingSteps > 0 THEN RSub(currentPrice, offset) ELSE breakEvenSL)
      ELSE RMin(RMin(currentSL, breakEvenSL),
                IF trailingSteps > 0 THEN RAdd(currentPrice, offset) ELSE breakEvenSL)

smartExitReason_rsiOnly(pos, pnlPct, analysis) ==
  IF ~RLe(Num(15), pnlPct) THEN ""
  ELSE IF pos.side = "long" /\ RLt(Num(75), analysis.rsi) THEN "RSI overbought"
  ELSE IF pos.side = "short" /\ RLt(analysis.rsi, Num(25)) THEN "RSI oversold"
  ELSE ""

\* "" when the position is not to exit early, else the exit reason
smartExitReason(pos, pnlPct, analysis) ==
  IF ~RLe(Num(15), pnlPct) THEN ""
  ELSE IF pos.side = "long" /\ RLt(Num(75), analysis.rsi) THEN "RSI overbought"
  ELSE IF pos.side = "short" /\ RLt(analysis.rsi, Num(25)) THEN "RSI oversold"
  ELSE IF ~RLe(Num(20), pnlPct) THEN ""
  ELSE IF pos.side = "long" /\ RLt(analysis.macdHist, Num(0))
                            /\ RLt(analysis.score, Num(0))
       THEN "MACD bearish momentum"
  ELSE IF pos.side = "short" /\ RLt(Num(0), analysis.macdHist)
                             /\ RLt(Num(0), analysis.score)
       THEN "MACD bullish momentum"
  ELSE ""

signalReversal(pos, analysis) ==
  \/ pos.side = "long" /\ analysis.bias = "bearish"
  \/ pos.side = "short" /\ analysis.bias = "bullish"

\* a liquidation that leaves the balance alone
liquidationBalance_unchanged(balance, margin) == balance

\* balance -= margin
liquidationBalance(balance, margin) == RSub(balance, margin)

\* balance += margin + pnl
closeBalance(balance, margin, pnl) == RAdd(balance, RAdd(margin, pnl))

\* take-profit tested before stop-loss
exitBranch_tpFirst(liquidation, stopLoss, takeProfit) ==
  IF liquidation THEN "liquidation"
  ELSE IF takeProfit THEN "take_profit"
  ELSE IF stopLoss THEN "stop_loss"
  ELSE "none"

\* which of the checks 1 to 3 applies: each ends the iteration with continue
exitBranch(liquidation, stopLoss, takeProfit) ==
  IF liquidation THEN "liquidation"
  ELSE IF stopLoss THEN "stop_loss"
  ELSE IF takeProfit THEN "take_profit"
  ELSE "none"

\* signal reversal tested before the smart early exit
lateBranch_reversalFirst(shouldExitEarly, reversal) ==
  IF reversal THEN "reversal"
  ELSE IF shouldExitEarly THEN "smart"
  ELSE "none"

\* which of the checks 5 and 6 applies
lateBranch(shouldExitEarly, reversal) ==
  IF shouldExitEarly THEN "smart"
  ELSE IF reversal THEN "reversal"
  ELSE "none"

\* newSL !== currentSL
stopChanged(newSL, currentSL) == newSL # currentSL

\* the update of the position row, the trade row and the log line of an exit
settle(st, pos, currentPrice, status, pnl, pnlPct, exit_reason, action, level, message, balance) ==
  LET patch == [status |-> status, exit_price |-> currentPrice, pnl |-> pnl,
                pnl_pct |-> pnlPct, closed_at |-> "set", exit_reason |-> exit_reason]
  IN  [positions |-> updateById(st.positions, pos.id, patch),
       balance |-> balance,
       trades |-> Append(st.trades,
                    tradeRow(pos.id, action, currentPrice, pos.quantity, pnl, balance)),
       logs |-> Append(st.logs, logRow(level, message, pos.side)),
       settled |-> Append(st.settled, pos.id)]

closeAction(pos) == IF pos.side = "long" THEN "close_long" ELSE "close_short"

\* steps 4 to 6, for a position that steps 1 to 3 left open
trailAndExit(st, pos, currentPrice, analysis, pnl, pnlPct) ==
  LET margin == pos.margin_used
      currentSL == Number(pos.stop_loss)
      currentAtr == IF Truthy(analysis.atr) THEN analysis.atr ELSE Num(0)
      newSL == trailingStop(pos, currentPrice, pnlPct, currentAtr)
      trailType == IF RLt(RAbs(RSub(newSL, pos.entry_price)), Num(1))
                   THEN "BREAK-EVEN" ELSE "ATR TRAIL"
      st4 == IF stopChanged(newSL, currentSL)
             THEN [st EXCEPT !.positions = updateById(st.positions, pos.id, [stop_loss |-> newSL]),
                             !.logs = Append(st.logs, logRow("info", trailType, pos.side))]
             ELSE st
      exitReason == smartExitReason(pos, pnlPct, analysis)
      branch == lateBranch(exitReason # "", signalReversal(pos, analysis))
  IN  IF branch = "smart"
      THEN settle(st4, pos, currentPrice, "closed", pnl, pnlPct, exitReason,
                  closeAction(pos), "trade", "SMART EXIT",
                  closeBalance(st4.balance, margin, pnl))
      ELSE IF branch = "reversal"
      THEN settle(st4, pos, currentPrice, "closed", pnl, pnlPct, "Signal reversal",
                  closeAction(pos), "trade", "REVERSAL EXIT",
                  closeBalance(st4.balance, margin, pnl))
      ELSE st4

\* the body of the loop over openPositions, for the row pos read before the loop
evalPosition(st, pos, currentPrice, analysis) ==
  LET margin == pos.margin_used
      pnl == unrealizedPnl(pos, currentPrice)
      pnlPct == pnlPctOf(pnl, margin)
      branch == exitBranch(liquidationHit(pnlPct), stopLossHit(pos, currentPrice),
                           takeProfitHit(pos, currentPrice))
  IN  IF branch = "liquidation"
      THEN settle(st, pos, currentPrice, "liquidated", RNeg(margin), Num(-100),
                  "Liquidation", "liquidation", "error", "LIQUIDATION",
                  liquidationBalance(st.balance, margin))
      ELSE IF branch = "stop_loss"
      THEN settle(st, pos, currentPrice, "closed", pnl, pnlPct, "Stop Loss",
                  "stop_loss", "trade", "STOP LOSS",
                  closeBalance(st.balance, margin, pnl))
      ELSE IF branch = "take_profit"
      THEN settle(st, pos, currentPrice, "closed", pnl, pnlPct, "Take Profit",
                  "take_profit", "trade", "TAKE PROFIT",
                  closeBalance(st.balance, margin, pnl))
      ELSE trailAndExit(st, pos, currentPrice, analysis, pnl, pnlPct)

RECURSIVE evalPositions(_, _, _, _)
evalPositions(st, open, currentPrice, analysis) ==
  IF open = <<>> THEN st
  ELSE evalPositions(evalPosition(st, Head(open), currentPrice, analysis),
                     Tail(open), currentPrice, analysis)

----------------------------------------------------------------------------
(* The tick: opening a position *)

stopLossPrice(side, currentPrice, slPct, leverage) ==
  IF side = "long"
  THEN RMul(currentPrice, RSub(Num(1), RDiv(slPct, leverage)))
  ELSE RMul(currentPrice, RAdd(Num(1), RDiv(slPct, leverage)))

takeProfitPrice(side, currentPrice, tpPct, leverage) ==
  IF side = "long"
  THEN RMul(currentPrice, RAdd(Num(1), RDiv(tpPct, leverage)))
  ELSE RMul(currentPrice, RSub(Num(1), RDiv(tpPct, leverage)))

\* margin >= 10 in place of margin > 10
entryGuard_atLeast(margin, balance) == RLe(Num(10), margin) /\ RLt(margin, balance)

\* margin > 10 && balance > margin
entryGuard(margin, balance) == RLt(Num(10), margin) /\ RLt(margin, balance)

\* the entry block without the test of the remaining open positions
noRemainingOpen_unchecked(remainingOpen) == TRUE

\* !remainingOpen || remainingOpen.length === 0
noRemainingOpen(remainingOpen) == remainingOpen = <<>>

\* the quantity of the margin alone, without the leverage
positionQuantity_unlevered(margin, leverage, currentPrice) == RDiv(margin, currentPrice)

\* quantity = notional / currentPrice, notional = margin * leverage
positionQuantity(margin, leverage, currentPrice) ==
  RDiv(RMul(margin, leverage), currentPrice)

\* the margin debited before the risk-reward test
discardTrade_debit(st, side, margin) ==
  [st EXCEPT !.logs = Append(@, logRow("info", "TRADE DISCARDED", side)),
             !.balance = RSub(@, margin)]

\* the rejected entry: one log line
discardTrade(st, side, margin) ==
  [st EXCEPT !.logs = Append(@, logRow("info", "TRADE DISCARDED", side))]

\* the row inserted into bot_positions; status takes the column default
newPosition(id, side, currentPrice, quantity, leverage, margin, stopLoss, takeProfit) ==
  [id |-> id, side |-> side, entry_price |-> currentPrice, quantity |-> quantity,
   leverage |-> leverage, margin_used |-> margin, stop_loss |-> stopLoss,
   take_profit |-> takeProfit, status |-> "open", exit_price |-> Null,
   exit_reason |-> "", pnl |-> Null, pnl_pct |-> Null, closed_at |-> "null"]

\* the accepted entry: debit, position row, trade row, two log lines
openPosition(st, id, side, currentPrice, quantity, leverage, margin, stopLoss, takeProfit) ==
  LET balance == RSub(st.balance, margin)
  IN  [positions |-> Append(st.positions,
                       newPosition(id, side, currentPrice, quantity, leverage,
                                   margin, stopLoss, takeProfit)),
       balance |-> balance,
       trades |-> Append(st.trades,
                    tradeRow(id, IF side = "long" THEN "open_long" ELSE "open_short",
                             currentPrice, quantity, Null, balance)),
       logs |-> st.logs \o <<logRow("trade", "OPEN", side),
                             logRow("info", "Reasoning", "")>>,
       settled |-> st.settled]

\* the OPEN NEW POSITION block, after the loop over the open positions
entryBlock(st, remainingOpen, config, id, currentPrice, analysis) ==
  LET positionSizePct == RDiv(config.position_size_pct, Num(100))
      margin == RMul(st.balance, positionSizePct)
      leverage == config.leverage
      quantity == positionQuantity(margin, leverage, currentPrice)
      side == IF analysis.bias = "bullish" THEN "long" ELSE "short"
      slPct == RDiv(config.stop_loss_pct, Num(100))
      tpPct == RDiv(config.take_profit_pct, Num(100))
      stopLoss == stopLossPrice(side, currentPrice, slPct, leverage)
      takeProfit == takeProfitPrice(side, currentPrice, tpPct, leverage)
      rr == validateRiskReward(side, currentPrice, stopLoss, takeProfit, MinRatio)
  IN  IF noRemainingOpen(remainingOpen) /\ analysis.entryAllowed
      THEN IF entryGuard(margin, st.balance)
           THEN IF ~rr.valid
                THEN discardTrade(st, side, margin)
                ELSE openPosition(st, id, side, currentPrice, quantity, leverage,
                                  margin, stopLoss, takeProfit)
           ELSE st
      ELSE IF ~analysis.entryAllowed /\ noRemainingOpen(remainingOpen)
      THEN [st EXCEPT !.logs = Append(@, logRow("info", "NO TRADE", analysis.skipReason))]
      ELSE st

\* OPEN NEW POSITION: the open positions are read again, then the entry
\* block runs on what was read
openNewPosition(st, config, id, currentPrice, analysis) ==
  entryBlock(st, selectOpen(st.positions), config, id, currentPrice, analysis)

\* TRADING LOGIC: the tables and the local balance when the tick ends
tick(config, positions, trades, id, currentPrice, analysis) ==
  LET openPositions == selectOpen(positions)
      st0 == [positions |-> positions, balance |-> Number(config.current_balance),
              trades |-> trades, logs |-> <<>>, settled |-> <<>>]
      st1 == evalPositions(st0, openPositions, currentPrice, analysis)
      st2 == openNewPosition(st1, config, id, currentPrice, analysis)
  IN  [st2 EXCEPT !.logs = Append(@, logRow("info", "Tick", analysis.bias))]

----------------------------------------------------------------------------
(* The request handler *)

NoAnalysis ==
  [bias |-> "none", score |-> Num(0), rsi |-> Null, macdHist |-> Null,
   atr |-> Null, entryAllowed |-> FALSE, skipReason |-> ""]

\* the JSON of the response: the message of a manual action, or the analysis
\* with the price of its latest candle and executed
reply(message, executed, price, analysis) ==
  [message |-> message, executed |-> executed, price |-> price, analysis |-> analysis]

\* new_balance of a reset_balance request; 0 stands for a body without it
NewBalances == {0, 20, 1000}

\* bodies of update_config requests: the columns present are patched
ConfigBodies ==
  { [position_size_pct |-> Num(50), take_profit_pct |-> Num(30)],
    [position_size_pct |-> Num(100)],
    [take_profit_pct |-> Num(15)],
    [take_profit_pct |-> Num(-20)] }

\* the invocations that may run concurrently
Invocations == {1, 2}

Idle == [pc |-> "idle"]

NoCall == [fn |-> "none"]

\* the tables after deployment, before the first request
Deployed ==
  /\ bot_config = [is_active |-> FALSE, current_balance |-> Num(1000),
                   initial_balance |-> Num(1000), leverage |-> Num(2),
                   position_size_pct |-> Num(50), stop_loss_pct |-> Num(10),
                   take_profit_pct |-> Num(30)]
  /\ bot_positions = <<>>
  /\ bot_trades = <<>>
  /\ bot_logs = <<>>
  /\ nextId = 1
  /\ response = reply("", FALSE, Null, NoAnalysis)
  /\ settlements = <<>>
  /\ served = 0
  /\ request = ""

Init ==
  /\ Deployed
  /\ fault = "none"
  /\ ticks = [i \in Invocations |-> Idle]
  /\ call = NoCall

runsTick_activeOnly(action, is_active) == is_active

\* the request goes on to the trading logic: it is not answered by the
\* status reply of an inactive bot
runsTick(action, is_active) == ~(~is_active /\ action # "run")

\* one more request is served, alone and with every call succeeding
serve(action) ==
  /\ served < MaxRequests
  /\ served' = served + 1
  /\ request' = action
  /\ fault' = "none"
  /\ UNCHANGED <<ticks, call>>

Toggle ==
  /\ serve("toggle")
  /\ bot_config' = [bot_config EXCEPT !.is_active = ~bot_config.is_active]
  /\ bot_logs' = <<>>
  /\ response' = reply("is_active", FALSE, Null, NoAnalysis)
  /\ UNCHANGED <<bot_positions, bot_trades, nextId, settlements>>

resetClose_stillOpen(pos, price) ==
  LET pnl == unrealizedPnl(pos, price)
  IN  [pos EXCEPT !.exit_price = price, !.pnl = pnl,
                  !.pnl_pct = pnlPctOf(pnl, pos.margin_used),
                  !.closed_at = "set", !.exit_reason = "Bot reset"]

\* the close of one open position by reset
resetClose(pos, price) ==
  LET pnl == unrealizedPnl(pos, price)
  IN  [pos EXCEPT !.status = "closed", !.exit_price = price, !.pnl = pnl,
                  !.pnl_pct = pnlPctOf(pnl, pos.margin_used),
                  !.closed_at = "set", !.exit_reason = "Bot reset"]

Reset ==
  \E p \in Prices :
    /\ serve("reset")
    /\ bot_positions' = [i \in 1..Len(bot_positions) |->
                           IF bot_positions[i].status = "open"
                           THEN resetClose(bot_positions[i], Num(p))
                           ELSE bot_positions[i]]
    /\ bot_config' = [bot_config EXCEPT !.is_active = FALSE,
                                        !.current_balance = bot_config.initial_balance]
    /\ bot_logs' = <<>>
    /\ response' = reply("Bot reset", FALSE, Null, NoAnalysis)
    /\ UNCHANGED <<bot_trades, nextId, settlements>>

ResetBalance ==
  \E b \in NewBalances :
    LET newBalance == IF b # 0 THEN Num(b) ELSE bot_config.initial_balance
    IN  /\ serve("reset_balance")
        /\ bot_positions' = deleteOpen(bot_positions)
        /\ bot_trades' = <<>>
        /\ bot_config' = [bot_config EXCEPT !.is_active = FALSE,
                                            !.current_balance = newBalance,
                                            !.initial_balance = newBalance]
        /\ bot_logs' = <<logRow("info", "Saldo zresetowane", "")>>
        /\ response' = reply("Balance reset", FALSE, Null, NoAnalysis)
        /\ UNCHANGED <<nextId, settlements>>

\* the columns of the body overwrite the stored ones, unvalidated
patchConfig(config, body) ==
  [k \in DOMAIN config |-> IF k \in DOMAIN body THEN body[k] ELSE config[k]]

UpdateConfig ==
  \E body \in ConfigBodies :
    /\ serve("update_config")
    /\ bot_config' = patchConfig(bot_config, body)
    /\ bot_logs' = <<>>
    /\ response' = reply("Config updated", FALSE, Null, NoAnalysis)
    /\ UNCHANGED <<bot_positions, bot_trades, nextId, settlements>>

\* a request that is no manual action and not 'run', while the bot is inactive
Status ==
  /\ \E action \in {"run", "poll"} :
       ~runsTick(action, bot_config.is_active) /\ serve(action)
  /\ bot_logs' = <<>>
  /\ response' = reply("status", FALSE, Null, NoAnalysis)
  /\ UNCHANGED <<bot_config, bot_positions, bot_trades, nextId, settlements>>

\* a 'run' request, or any other request while the bot is active
Tick ==
  \E p \in Prices, analysis \in Analyses :
    LET st == tick(bot_config, bot_positions, bot_trades, nextId, Num(p), analysis)
        opened == Len(st.positions) > Len(bot_positions)
    IN  /\ \E action \in {"run", "poll"} :
             runsTick(action, bot_config.is_active) /\ serve(action)
        /\ bot_positions' = st.positions
        /\ bot_trades' = st.trades
        /\ bot_logs' = st.logs
        /\ bot_config' = [bot_config EXCEPT !.current_balance = st.balance]
        /\ settlements' = settlements \o st.settled
        /\ nextId' = IF opened THEN nextId + 1 ELSE nextId
        /\ response' = reply("", TRUE, Num(p), analysis)

Next ==
  \/ Toggle
  \/ Reset
  \/ ResetBalance
  \/ UpdateConfig
  \/ Status
  \/ Tick

Spec == Init /\ [][Next]_vars

----------------------------------------------------------------------------
(* Requests during which a call fails.  A rejected fetch, a body that is   *)
(* no JSON and a klines answer that is no array throw, and the catch block *)
(* answers with status 500.  An error answer of the ticker endpoint that   *)
(* is JSON has no price field: parseFloat(undefined) is NaN and nothing    *)
(* throws.  A failed table call either resolves with an error object,      *)
(* which the handler never reads, or throws into the catch block.          *)

\* the analyses of a tick that fails or overlaps another: no signal, a long
\* entry, a short entry
CoreAnalyses ==
  {analyzeMarket(in) : in \in {Quiet, [Quiet EXCEPT !.bullKeys = 3],
                               [Quiet EXCEPT !.bearKeys = 3, !.macdHist = Num(-1)]}}

\* one more request is served, during which the call named failed
serveFault(failed, action) ==
  /\ served < MaxRequests
  /\ served' = served + 1
  /\ request' = action
  /\ fault' = failed
  /\ UNCHANGED <<ticks, call>>

\* the response of the catch block
errorReply == reply("error", FALSE, Null, NoAnalysis)

\* a tick whose fetchKlines throws
TickKlinesFail ==
  /\ \E action \in {"run", "poll"} :
       runsTick(action, bot_config.is_active) /\ serveFault("klines", action)
  /\ bot_logs' = <<>>
  /\ response' = errorReply
  /\ UNCHANGED <<bot_config, bot_positions, bot_trades, nextId, settlements>>

\* a tick whose write of current_balance fails: the error is returned and
\* ignored, or thrown before the Tick log line
TickBalanceWriteFails ==
  \E p \in Prices, analysis \in CoreAnalyses, thrown \in BOOLEAN :
    \E st \in {tick(bot_config, bot_positions, bot_trades, nextId, Num(p), analysis)} :
    LET opened == Len(st.positions) > Len(bot_positions)
    IN  /\ \E action \in {"run", "poll"} :
             runsTick(action, bot_config.is_active)
             /\ serveFault("balance_write", action)
        /\ bot_positions' = st.positions
        /\ bot_trades' = st.trades
        /\ bot_logs' = IF thrown THEN SubSeq(st.logs, 1, Len(st.logs) - 1) ELSE st.logs
        /\ nextId' = IF opened THEN nextId + 1 ELSE nextId
        /\ response' = IF thrown THEN errorReply ELSE reply("", TRUE, Num(p), analysis)
        /\ UNCHANGED <<bot_config, settlements>>

\* the close of one open position by reset at a price that is NaN: NaN is
\* stored as null
resetCloseNaN(pos) ==
  [pos EXCEPT !.status = "closed", !.exit_price = Null, !.pnl = Null,
              !.pnl_pct = Null, !.closed_at = "set", !.exit_reason = "Bot reset"]

\* a reset whose fetchCurrentPrice fails: it throws, or it returns NaN
ResetPriceFails ==
  \E thrown \in BOOLEAN :
    /\ serveFault("price", "reset")
    /\ bot_logs' = <<>>
    /\ IF thrown
       THEN /\ response' = errorReply
            /\ UNCHANGED <<bot_config, bot_positions>>
       ELSE /\ bot_positions' = [i \in 1..Len(bot_positions) |->
                                   IF bot_positions[i].status = "open"
                                   THEN resetCloseNaN(bot_positions[i])
                                   ELSE bot_positions[i]]
            /\ bot_config' = [bot_config EXCEPT
                                !.is_active = FALSE,
                                !.current_balance = bot_config.initial_balance]
            /\ response' = reply("Bot reset", FALSE, Null, NoAnalysis)
    /\ UNCHANGED <<bot_trades, nextId, settlements>>

\* ticks 'run' by hand with the deployed config, any of them or a reset failing
NextFault ==
  \/ Tick
  \/ TickKlinesFail
  \/ TickBalanceWriteFails
  \/ ResetPriceFails

SpecFault == Init /\ [][NextFault]_vars

----------------------------------------------------------------------------
(* Invocations of the trading logic that overlap.  The handler takes no    *)
(* lock and opens no transaction: an invocation reads the config row, the  *)
(* candles and the open positions, and the awaits that follow let another  *)
(* invocation run before it writes.                                        *)

\* invocation i loads the config row, fetches the candles and reads the open
\* positions and the balance
TickStart(i) ==
  \E p \in Prices, analysis \in CoreAnalyses :
    /\ served < MaxRequests
    /\ served' = served + 1
    /\ request' = "run"
    /\ ticks[i].pc = "idle"
    /\ ticks' = [ticks EXCEPT ![i] =
                   [pc |-> "running", config |-> bot_config, price |-> Num(p),
                    analysis |-> analysis,
                    openPositions |-> selectOpen(bot_positions)]]
    /\ UNCHANGED <<bot_config, bot_positions, bot_trades, bot_logs, nextId,
                   response, settlements, fault, call>>

\* invocation i evaluates the positions it read, runs the entry block and
\* writes the balance it computed
TickFinish(i) ==
  LET t == ticks[i]
      st0 == [positions |-> bot_positions, balance |-> Number(t.config.current_balance),
              trades |-> bot_trades, logs |-> <<>>, settled |-> <<>>]
      st1 == evalPositions(st0, t.openPositions, t.price, t.analysis)
      st2 == openNewPosition(st1, t.config, nextId, t.price, t.analysis)
      opened == Len(st2.positions) > Len(bot_positions)
  IN  /\ t.pc = "running"
      /\ ticks' = [ticks EXCEPT ![i] = Idle]
      /\ bot_positions' = st2.positions
      /\ bot_trades' = st2.trades
      /\ bot_logs' = Append(st2.logs, logRow("info", "Tick", t.analysis.bias))
      /\ bot_config' = [bot_config EXCEPT !.current_balance = st2.balance]
      /\ settlements' = settlements \o st2.settled
      /\ nextId' = IF opened THEN nextId + 1 ELSE nextId
      /\ response' = reply("", TRUE, t.price, t.analysis)
      /\ UNCHANGED <<served, request, fault, call>>

NextConc ==
  \E i \in Invocations :
    \/ TickStart(i)
    \/ TickFinish(i)

SpecConc == Init /\ [][NextConc]_vars

\* Every await of the handler lets the other invocation run.  Invocation i
\* evaluates the positions it read and reads the open positions again
TickEvaluate(i) ==
  LET t == ticks[i]
      st0 == [positions |-> bot_positions, balance |-> Number(t.config.current_balance),
              trades |-> bot_trades, logs |-> <<>>, settled |-> <<>>]
  IN  /\ t.pc = "running"
      /\ \E st1 \in {evalPositions(st0, t.openPositions, t.price, t.analysis)} :
           /\ ticks' = [ticks EXCEPT ![i] =
                          [pc |-> "evaluated", config |-> t.config, price |-> t.price,
                           analysis |-> t.analysis, balance |-> st1.balance,
                           settled |-> st1.settled,
                           remainingOpen |-> selectOpen(st1.positions)]]
           /\ bot_positions' = st1.positions
           /\ bot_trades' = st1.trades
           /\ bot_logs' = st1.logs
      /\ UNCHANGED <<bot_config, nextId, response, settlements, served, request,
                     fault, call>>

\* invocation i runs the entry block on the open positions it read again and
\* writes the balance it computed
TickEnter(i) ==
  LET t == ticks[i]
      st1 == [positions |-> bot_positions, balance |-> t.balance,
              trades |-> bot_trades, logs |-> <<>>, settled |-> t.settled]
  IN  /\ t.pc = "evaluated"
      /\ \E st2 \in {entryBlock(st1, t.remainingOpen, t.config, nextId, t.price,
                                t.analysis)} :
           /\ bot_positions' = st2.positions
           /\ bot_trades' = st2.trades
           /\ bot_logs' = Append(st2.logs, logRow("info", "Tick", t.analysis.bias))
           /\ bot_config' = [bot_config EXCEPT !.current_balance = st2.balance]
           /\ settlements' = settlements \o st2.settled
           /\ nextId' = IF Len(st2.positions) > Len(bot_positions)
                        THEN nextId + 1 ELSE nextId
      /\ ticks' = [ticks EXCEPT ![i] = Idle]
      /\ response' = reply("", TRUE, t.price, t.analysis)
      /\ UNCHANGED <<served, request, fault, call>>

NextSteps ==
  \E i \in Invocations :
    \/ TickStart(i)
    \/ TickEvaluate(i)
    \/ TickEnter(i)

SpecSteps == Init /\ [][NextSteps]_vars

\* a reset served while invocations of the trading logic are under way
NextReset ==
  \/ NextSteps
  \/ Reset

SpecReset == Init /\ [][NextReset]_vars

----------------------------------------------------------------------------
(* Calls of validateRiskReward on arbitrary arguments *)

NoResult == [valid |-> FALSE, ratio |-> Null]

Levels == 0..MaxLevel

MinRatios == {1, 2, 3}

InitRR ==
  /\ Deployed
  /\ fault = "none"
  /\ ticks = [i \in Invocations |-> Idle]
  /\ call \in [fn : {"validateRiskReward"}, side : {"long", "short"},
                entryPrice : Levels, stopLoss : Levels, takeProfit : Levels,
                minRatio : MinRatios, returned : {FALSE}, result : {NoResult}]

CallValidateRiskReward ==
  /\ ~call.returned
  /\ call' = [call EXCEPT
                !.returned = TRUE,
                !.result = validateRiskReward(call.side, Num(call.entryPrice),
                                              Num(call.stopLoss), Num(call.takeProfit),
                                              call.minRatio)]
  /\ UNCHANGED <<bot_config, bot_positions, bot_trades, bot_logs, nextId, response,
                 settlements, served, request, fault, ticks>>

SpecRR == InitRR /\ [][CallValidateRiskReward]_vars

----------------------------------------------------------------------------
(* Calls of analyzeMarket on arbitrary readings of the latest candle *)

\* the key conditions counted into bullKeys and into bearKeys
KEYS == 5

\* RSI at the latest candle; Null is the NaN of a series shorter than the warm-up
RsiReadings == {Null, Num(20), Num(25), Num(50), Num(75), Num(80)}

AllMarketInputs ==
  [chopZone : BOOLEAN, lowVolume : BOOLEAN,
   longContext : BOOLEAN, shortContext : BOOLEAN,
   bullKeys : 0..KEYS, bearKeys : 0..KEYS,
   rsi : RsiReadings, macdHist : {Num(1)}, atr : {Num(12)}]

InitAM ==
  /\ Deployed
  /\ fault = "none"
  /\ ticks = [i \in Invocations |-> Idle]
  /\ call \in [fn : {"analyzeMarket"}, in : AllMarketInputs,
                returned : {FALSE}, result : {NoAnalysis}]

CallAnalyzeMarket ==
  /\ ~call.returned
  /\ call' = [call EXCEPT !.returned = TRUE, !.result = analyzeMarket(call.in)]
  /\ UNCHANGED <<bot_config, bot_positions, bot_trades, bot_logs, nextId, response,
                 settlements, served, request, fault, ticks>>

SpecAM == InitAM /\ [][CallAnalyzeMarket]_vars

----------------------------------------------------------------------------
(* The dashboard's signal tally, forecast.ts.  A reading that is NaN, or   *)
(* the undefined of an index outside the array, is Null.                   *)

JsLt(a, b) == JsGt(b, a)

\* a >= b of two JavaScript numbers
JsGe(a, b) == a # Null /\ b # Null /\ RLe(b, a)

JsLe(a, b) == JsGe(b, a)

\* Math.round of a rational
Round(x) == RFloor(RAdd(x, Q(1, 2)))

\* isBull of addSignal as the signal it is stored as
signalOf(isBull) == IF isBull = "true" THEN "buy" ELSE IF isBull = "false" THEN "sell" ELSE "neutral"

\* addSignal under the guard of its indicator: no entry when the guard fails
addSignal(guard, name, isBull) ==
  IF guard THEN <<[name |-> name, signal |-> signalOf(isBull)]>> ELSE <<>>

\* true for a condition that holds, false otherwise
vote(cond) == IF cond THEN "true" ELSE "false"

\* true below the low mark, false above the high mark, null between
band(lowSide, highSide) == IF lowSide THEN "true" ELSE IF highSide THEN "false" ELSE "null"

analyzeSignals(ind) ==
  LET cross == JsLe(ind.prevMacd, ind.prevSig) /\ JsGt(ind.macdVal, ind.macdSig)
      crossDown == JsGe(ind.prevMacd, ind.prevSig) /\ JsLt(ind.macdVal, ind.macdSig)
      bbPos == RDiv(RSub(ind.price, ind.bbLow), RSub(ind.bbUp, ind.bbLow))
      obvTrend == JsGt(ind.obvLast, ind.obvPrev)
      signals ==
        addSignal(ind.rsi # Null, "RSI",
                  band(JsLt(ind.rsi, Num(30)), JsGt(ind.rsi, Num(70))))
        \o addSignal(ind.macdVal # Null, "MACD",
                  IF cross THEN "true" ELSE IF crossDown THEN "false"
                  ELSE vote(JsGt(ind.macdVal, ind.macdSig)))
        \o addSignal(ind.ema50 # Null /\ ind.ema200 # Null, "EMA 50/200",
                  vote(JsGt(ind.ema50, ind.ema200)))
        \o addSignal(ind.bbUp # Null /\ ind.bbLow # Null, "Bollinger",
                  band(JsLt(bbPos, Q(1, 5)), JsGt(bbPos, Q(4, 5))))
        \o addSignal(ind.stochK # Null, "Stochastic",
                  band(JsLt(ind.stochK, Num(20)), JsGt(ind.stochK, Num(80))))
        \o addSignal(ind.adx # Null, "ADX",
                  IF JsGt(ind.adx, Num(25)) THEN vote(JsGt(ind.pdi, ind.mdi)) ELSE "null")
        \o addSignal(ind.wr # Null, "Williams %R",
                  band(JsLt(ind.wr, Num(-80)), JsGt(ind.wr, Num(-20))))
        \o addSignal(ind.cmf # Null, "CMF",
                  band(JsGt(ind.cmf, Q(1, 20)), JsLt(ind.cmf, Q(-1, 20))))
        \o addSignal(ind.sar # Null, "Parabolic SAR", vote(JsGt(ind.price, ind.sar)))
        \o addSignal(TRUE, "OBV", vote(obvTrend))
        \o addSignal(ind.atr # Null, "ATR", "null")
      total == Len(signals)
      bullish == Cardinality({k \in 1..total : signals[k].signal = "buy"})
      bearish == Cardinality({k \in 1..total : signals[k].signal = "sell"})
      most == IF bullish > bearish THEN bullish ELSE bearish
  IN  [signals |-> signals,
       confidence |-> IF total > 0 THEN Round(Q(most * 100, total)) ELSE 50,
       bias |-> IF bullish > bearish THEN "Bullish"
                ELSE IF bearish > bullish THEN "Bearish" ELSE "Neutral"]

\* the readings analyzeSignals takes at the latest candle, obvPrev ten candles
\* before it; obvPrev is undefined on a series of fewer than 11 candles
SignalReadings ==
  [rsi : {Null, Num(20), Num(80)},
   macdVal : {Null, Num(1)}, macdSig : {Num(0), Num(2)},
   prevMacd : {Num(0)}, prevSig : {Num(0)},
   ema50 : {Null, Num(100)}, ema200 : {Num(90)},
   bbUp : {Null, Num(120)}, bbLow : {Num(80)}, price : {Num(100)},
   stochK : {Null, Num(10)},
   adx : {Null, Num(30)}, pdi : {Num(20)}, mdi : {Num(10)},
   wr : {Null, Num(-90)}, cmf : {Null, Q(1, 10)}, sar : {Null, Num(95)},
   obvLast : {Num(5)}, obvPrev : {Null, Num(3), Num(7)},
   atr : {Null, Num(12)}]

NoSignals == [signals |-> <<>>, confidence |-> 50, bias |-> "Neutral"]

SignalCalls ==
  [fn : {"analyzeSignals"}, ind : SignalReadings, returned : {FALSE}, result : {NoSignals}]

CallAnalyzeSignals ==
  /\ call.fn = "analyzeSignals"
  /\ ~call.returned
  /\ call' = [call EXCEPT !.returned = TRUE, !.result = analyzeSignals(call.ind)]
  /\ UNCHANGED <<bot_config, bot_positions, bot_trades, bot_logs, nextId, response,
                 settlements, served, request, fault, ticks>>

----------------------------------------------------------------------------
(* The indicator library, indicators.ts.  An array is a sequence of        *)
(* numbers; NaN, and the undefined of an index outside an array, are Null, *)
(* and arithmetic on Null gives Null.  Index i of the code is element      *)
(* i + 1 of the sequence.                                                  *)

\* arr[i] of JavaScript
At(arr, i) == IF i >= 0 /\ i < Len(arr) THEN arr[i + 1] ELSE Null

NAdd(a, b) == IF a = Null \/ b = Null THEN Null ELSE RAdd(a, b)

NSub(a, b) == IF a = Null \/ b = Null THEN Null ELSE RSub(a, b)

NMul(a, b) == IF a = Null \/ b = Null THEN Null ELSE RMul(a, b)

\* a / b for b that is not 0
NDiv(a, b) == IF a = Null \/ b = Null THEN Null ELSE RDiv(a, b)

NAbs(a) == IF a = Null THEN Null ELSE RAbs(a)

\* Math.max and Math.min of two numbers: NaN when either is
NMax(a, b) == IF a = Null \/ b = Null THEN Null ELSE RMax(a, b)

NMin(a, b) == IF a = Null \/ b = Null THEN Null ELSE RMin(a, b)

\* an index argument of slice: negative counts from the end
sliceIndex(x, len) ==
  IF x < 0 THEN (IF len + x < 0 THEN 0 ELSE len + x)
  ELSE IF x > len THEN len ELSE x

\* arr.slice(from, to)
slice(arr, from, to) ==
  SubSeq(arr, sliceIndex(from, Len(arr)) + 1, sliceIndex(to, Len(arr)))

\* reduce((a, b) => a + b, 0)
RECURSIVE sum(_)
sum(arr) == IF arr = <<>> THEN Num(0) ELSE NAdd(Head(arr), sum(Tail(arr)))

\* Math.max(...arr) and Math.min(...arr) of an array that is not empty
RECURSIVE maxOf(_)
maxOf(arr) == IF Len(arr) = 1 THEN arr[1] ELSE NMax(Head(arr), maxOf(Tail(arr)))

RECURSIVE minOf(_)
minOf(arr) == IF Len(arr) = 1 THEN arr[1] ELSE NMin(Head(arr), minOf(Tail(arr)))

\* the square root of a natural that is a perfect square
ISqrt(k) == CHOOSE r \in 0..k : r * r = k

\* Math.sqrt of a rational that is the square of a rational
Sqrt(x) == IF x = Null THEN Null ELSE Q(ISqrt(x[1]), ISqrt(x[2]))

RECURSIVE emaLoop(_, _, _, _)
emaLoop(data, k, ema, i) ==
  IF i >= Len(data) THEN ema
  ELSE emaLoop(data, k,
               Append(ema, NAdd(NMul(At(data, i), k),
                                NMul(At(ema, i - 1), RSub(Num(1), k)))),
               i + 1)

calculateEMA(data, period) == emaLoop(data, Q(2, period + 1), <<At(data, 0)>>, 1)

calculateSMA(data, period) ==
  [j \in 1..Len(data) |->
     LET i == j - 1
     IN  IF i < period - 1 THEN Null
         ELSE NDiv(sum(slice(data, i - period + 1, i + 1)), Num(period))]

\* the first loop of calculateRSI: the sums of the gains and of the losses
RECURSIVE rsiSeed(_, _, _, _, _)
rsiSeed(closes, period, i, avgGain, avgLoss) ==
  IF i > period THEN [avgGain |-> avgGain, avgLoss |-> avgLoss]
  ELSE LET change == NSub(At(closes, i), At(closes, i - 1))
       IN  IF JsGt(change, Num(0))
           THEN rsiSeed(closes, period, i + 1, NAdd(avgGain, change), avgLoss)
           ELSE rsiSeed(closes, period, i + 1, avgGain, NAdd(avgLoss, NAbs(change)))

\* avgLoss === 0 ? 100 : 100 - 100 / (1 + avgGain / avgLoss)
rsiValue(avgGain, avgLoss) ==
  IF avgLoss = Num(0) THEN Num(100)
  ELSE NSub(Num(100), NDiv(Num(100), NAdd(Num(1), NDiv(avgGain, avgLoss))))

RECURSIVE rsiLoop(_, _, _, _, _, _)
rsiLoop(closes, period, i, avgGain, avgLoss, rsi) ==
  IF i >= Len(closes) THEN rsi
  ELSE LET change == NSub(At(closes, i), At(closes, i - 1))
           gain == NDiv(NAdd(NMul(avgGain, Num(period - 1)), NMax(change, Num(0))),
                        Num(period))
           loss == NDiv(NAdd(NMul(avgLoss, Num(period - 1)),
                             NMax(NSub(Num(0), change), Num(0))),
                        Num(period))
       IN  rsiLoop(closes, period, i + 1, gain, loss, Append(rsi, rsiValue(gain, loss)))

calculateRSI(closes, period) ==
  LET seed == rsiSeed(closes, period, 1, Num(0), Num(0))
      avgGain == NDiv(seed.avgGain, Num(period))
      avgLoss == NDiv(seed.avgLoss, Num(period))
      rsi == Append([j \in 1..period |-> Null], rsiValue(avgGain, avgLoss))
  IN  rsiLoop(closes, period, period + 1, avgGain, avgLoss, rsi)

calculateMACD(closes, fast, slow, signal) ==
  LET emaFast == calculateEMA(closes, fast)
      emaSlow == calculateEMA(closes, slow)
      macdLine == [j \in 1..Len(emaFast) |-> NSub(emaFast[j], At(emaSlow, j - 1))]
      signalLine == calculateEMA(macdLine, signal)
  IN  [macdLine |-> macdLine, signalLine |-> signalLine,
       histogram |-> [j \in 1..Len(macdLine) |-> NSub(macdLine[j], At(signalLine, j - 1))]]

\* the population variance of the window that ends at index i
variance(closes, period, i, mean) ==
  LET window == slice(closes, i - period + 1, i + 1)
  IN  NDiv(sum([j \in 1..Len(window) |->
                  NMul(NSub(window[j], mean), NSub(window[j], mean))]),
           Num(period))

calculateBollingerBands(closes, period, stdDev) ==
  LET sma == calculateSMA(closes, period)
      std == [j \in 1..Len(closes) |->
                IF j - 1 < period - 1 THEN Null
                ELSE Sqrt(variance(closes, period, j - 1, sma[j]))]
  IN  [upper |-> [j \in 1..Len(closes) |-> NAdd(sma[j], NMul(Num(stdDev), std[j]))],
       middle |-> sma,
       lower |-> [j \in 1..Len(closes) |-> NSub(sma[j], NMul(Num(stdDev), std[j]))]]

calculateStochastic(highs, lows, closes, period, smoothK, smoothD) ==
  LET rawK == [j \in 1..Len(closes) |->
                 LET i == j - 1
                     hh == maxOf(slice(highs, i - period + 1, i + 1))
                     ll == minOf(slice(lows, i - period + 1, i + 1))
                 IN  IF i < period - 1 THEN Null
                     ELSE IF hh = ll THEN Num(50)
                     ELSE NMul(NDiv(NSub(closes[j], ll), NSub(hh, ll)), Num(100))]
      k == calculateSMA(rawK, smoothK)
  IN  [k |-> k, d |-> calculateSMA(k, smoothD)]

\* the true range of each candle
trueRange(highs, lows, closes) ==
  <<NSub(At(highs, 0), At(lows, 0))>> \o
  [i \in 1..(Len(closes) - 1) |->
     NMax(NMax(NSub(At(highs, i), At(lows, i)),
               NAbs(NSub(At(highs, i), At(closes, i - 1)))),
          NAbs(NSub(At(lows, i), At(closes, i - 1))))]

calculateATR(highs, lows, closes, period) ==
  calculateEMA(trueRange(highs, lows, closes), period)

RECURSIVE obvLoop(_, _, _, _)
obvLoop(closes, volumes, obv, i) ==
  IF i >= Len(closes) THEN obv
  ELSE LET next == IF JsGt(At(closes, i), At(closes, i - 1))
                   THEN NAdd(At(obv, i - 1), At(volumes, i))
                   ELSE IF JsGt(At(closes, i - 1), At(closes, i))
                   THEN NSub(At(obv, i - 1), At(volumes, i))
                   ELSE At(obv, i - 1)
       IN  obvLoop(closes, volumes, Append(obv, next), i + 1)

calculateOBV(closes, volumes) == obvLoop(closes, volumes, <<Num(0)>>, 1)

calculateWilliamsR(highs, lows, closes, period) ==
  [j \in 1..Len(closes) |->
     LET i == j - 1
         hh == maxOf(slice(highs, i - period + 1, i + 1))
         ll == minOf(slice(lows, i - period + 1, i + 1))
     IN  IF i < period - 1 THEN Null
         ELSE IF hh = ll THEN Num(-50)
         ELSE NMul(NDiv(NSub(hh, closes[j]), NSub(hh, ll)), Num(-100))]

\* upMove > downMove && upMove > 0 ? upMove : 0, and its mirror
directionalMove(move, other) ==
  IF JsGt(move, other) /\ JsGt(move, Num(0)) THEN move ELSE Num(0)

\* atr[i] ? (v / atr[i]) * 100 : 0
directionalIndex(v, atr) ==
  IF Truthy(atr) THEN NMul(NDiv(v, atr), Num(100)) ELSE Num(0)

\* sum ? Math.abs(v - minusDI[i]) / sum * 100 : 0
dxOf(plus, minus) ==
  LET total == NAdd(plus, minus)
  IN  IF Truthy(total) THEN NMul(NDiv(NAbs(NSub(plus, minus)), total), Num(100))
      ELSE Num(0)

calculateADX(highs, lows, closes, period) ==
  LET plusDM == <<Num(0)>> \o
                [i \in 1..(Len(closes) - 1) |->
                   directionalMove(NSub(At(highs, i), At(highs, i - 1)),
                                   NSub(At(lows, i - 1), At(lows, i)))]
      minusDM == <<Num(0)>> \o
                 [i \in 1..(Len(closes) - 1) |->
                    directionalMove(NSub(At(lows, i - 1), At(lows, i)),
                                    NSub(At(highs, i), At(highs, i - 1)))]
      atr == calculateEMA(trueRange(highs, lows, closes), period)
      smoothPlusDM == calculateEMA(plusDM, period)
      smoothMinusDM == calculateEMA(minusDM, period)
      plusDI == [j \in 1..Len(smoothPlusDM) |->
                   directionalIndex(smoothPlusDM[j], At(atr, j - 1))]
      minusDI == [j \in 1..Len(smoothMinusDM) |->
                    directionalIndex(smoothMinusDM[j], At(atr, j - 1))]
      dx == [j \in 1..Len(plusDI) |-> dxOf(plusDI[j], At(minusDI, j - 1))]
  IN  [adx |-> calculateEMA(dx, period), plusDI |-> plusDI, minusDI |-> minusDI]

accelerate_uncapped(currentAf, af, maxAf) == NAdd(currentAf, af)

\* currentAf = Math.min(currentAf + af, maxAf)
accelerate(currentAf, af, maxAf) == NMin(NAdd(currentAf, af), maxAf)

\* one pass of the loop of calculateParabolicSAR at index i: s holds sar[i - 1],
\* isUpTrend, ep and currentAf; c holds highs[i] and lows[i], the two of
\* index i - 1, and the two of index i - 2 (of i - 1 when i = 1)
sarStep(s, c, af, maxAf) ==
  LET raised == NAdd(s.sar, NMul(s.currentAf, NSub(s.ep, s.sar)))
      below == NMin(NMin(raised, c.low1), c.low2)
      above == NMax(NMax(raised, c.high1), c.high2)
  IN  IF s.isUpTrend
      THEN IF JsGt(below, c.low)
           THEN [sar |-> s.ep, isUpTrend |-> FALSE, ep |-> c.low, currentAf |-> af]
           ELSE IF JsGt(c.high, s.ep)
           THEN [sar |-> below, isUpTrend |-> TRUE, ep |-> c.high,
                 currentAf |-> accelerate(s.currentAf, af, maxAf)]
           ELSE [s EXCEPT !.sar = below]
      ELSE IF JsLt(above, c.high)
           THEN [sar |-> s.ep, isUpTrend |-> TRUE, ep |-> c.high, currentAf |-> af]
           ELSE IF JsLt(c.low, s.ep)
           THEN [sar |-> above, isUpTrend |-> FALSE, ep |-> c.low,
                 currentAf |-> accelerate(s.currentAf, af, maxAf)]
           ELSE [s EXCEPT !.sar = above]

\* what the loop reads of the arrays at index i
sarCandles(highs, lows, i) ==
  [high |-> At(highs, i), low |-> At(lows, i),
   high1 |-> At(highs, i - 1), low1 |-> At(lows, i - 1),
   high2 |-> IF i > 1 THEN At(highs, i - 2) ELSE At(highs, i - 1),
   low2 |-> IF i > 1 THEN At(lows, i - 2) ELSE At(lows, i - 1)]

\* the state before the loop
sarStart(highs, lows, af) ==
  [sar |-> At(lows, 0), isUpTrend |-> TRUE, ep |-> At(highs, 0), currentAf |-> af]

RECURSIVE sarLoop(_, _, _, _, _, _, _)
sarLoop(highs, lows, af, maxAf, i, s, sar) ==
  IF i >= Len(highs) THEN sar
  ELSE LET next == sarStep(s, sarCandles(highs, lows, i), af, maxAf)
       IN  sarLoop(highs, lows, af, maxAf, i + 1, next, Append(sar, next.sar))

calculateParabolicSAR(highs, lows, af, maxAf) ==
  sarLoop(highs, lows, af, maxAf, 1, sarStart(highs, lows, af), <<At(lows, 0)>>)

\* the money flow volume of each candle
moneyFlowVolume(highs, lows, closes, volumes) ==
  [j \in 1..Len(closes) |->
     LET range == NSub(At(highs, j - 1), At(lows, j - 1))
     IN  IF range = Num(0) THEN Num(0)
         ELSE NMul(NDiv(NSub(NSub(closes[j], At(lows, j - 1)),
                             NSub(At(highs, j - 1), closes[j])), range),
                   At(volumes, j - 1))]

calculateCMF(highs, lows, closes, volumes, period) ==
  LET mfv == moneyFlowVolume(highs, lows, closes, volumes)
  IN  [j \in 1..Len(closes) |->
         LET i == j - 1
             mfvSum == sum(slice(mfv, i - period + 1, i + 1))
             volSum == sum(slice(volumes, i - period + 1, i + 1))
         IN  IF i < period - 1 THEN Null
             ELSE IF volSum = Num(0) THEN Num(0) ELSE NDiv(mfvSum, volSum)]

calculateVWAP(highs, lows, closes, volumes) ==
  [j \in 1..Len(closes) |->
     LET cumTPV == sum([m \in 1..j |->
                          NMul(NDiv(NAdd(NAdd(At(highs, m - 1), At(lows, m - 1)),
                                         closes[m]), Num(3)),
                               At(volumes, m - 1))])
         cumVol == sum(slice(volumes, 0, j))
     IN  IF cumVol = Num(0) THEN closes[j] ELSE NDiv(cumTPV, cumVol)]

\* the default acceleration step and cap of calculateParabolicSAR
AF == Q(1, 50)

MAX_AF == Q(1, 5)

calculateAllIndicators(closes, highs, lows, volumes) ==
  [ema50 |-> calculateEMA(closes, 50),
   ema200 |-> calculateEMA(closes, 200),
   sma20 |-> calculateSMA(closes, 20),
   rsi |-> calculateRSI(closes, 14),
   macd |-> calculateMACD(closes, 12, 26, 9),
   bollingerBands |-> calculateBollingerBands(closes, 20, 2),
   stochastic |-> calculateStochastic(highs, lows, closes, 14, 3, 3),
   atr |-> calculateATR(highs, lows, closes, 14),
   obv |-> calculateOBV(closes, volumes),
   williamsR |-> calculateWilliamsR(highs, lows, closes, 14),
   adx |-> calculateADX(highs, lows, closes, 14),
   parabolicSAR |-> calculateParabolicSAR(highs, lows, AF, MAX_AF),
   cmf |-> calculateCMF(highs, lows, closes, volumes, 20),
   vwap |-> calculateVWAP(highs, lows, closes, volumes)]

----------------------------------------------------------------------------
(* analyzeMarket on the candles themselves, index.ts: the part that        *)
(* decides whether the call returns or throws.  A TypeError, the read of   *)
(* a property of undefined, is the result Thrown.                          *)

Thrown == [thrown |-> TRUE, bullish |-> FALSE, bearish |-> FALSE, pattern |-> ""]

\* Hammer and Shooting Star, on the latest candle alone
wickPattern(c) ==
  LET bodyC == RAbs(RSub(c.close, c.open))
      rangeC == RSub(c.high, c.low)
      lowerWick == RSub(RMin(c.open, c.close), c.low)
      upperWick == RSub(c.high, RMax(c.open, c.close))
      hammer == /\ RLt(Num(0), rangeC)
                /\ RLt(RMul(bodyC, Num(2)), lowerWick)
                /\ RLt(upperWick, RMul(bodyC, Q(1, 2)))
      star == /\ RLt(Num(0), rangeC)
              /\ RLt(RMul(bodyC, Num(2)), upperWick)
              /\ RLt(lowerWick, RMul(bodyC, Q(1, 2)))
  IN  [bullish |-> hammer, bearish |-> star,
       pattern |-> IF star THEN "Shooting Star" ELSE IF hammer THEN "Hammer" ELSE ""]

\* Bullish and Bearish Engulfing, on the latest two candles
engulfing(c, p) ==
  LET bodyP == RAbs(RSub(p.close, p.open))
      bull == /\ RLt(Num(0), bodyP)
              /\ RLt(p.close, p.open) /\ RLt(c.open, c.close)
              /\ RLt(p.open, c.close) /\ RLt(c.open, p.close)
      bear == /\ RLt(Num(0), bodyP)
              /\ RLt(p.open, p.close) /\ RLt(c.close, c.open)
              /\ RLt(c.close, p.open) /\ RLt(p.close, c.open)
  IN  [bullish |-> bull, bearish |-> bear,
       pattern |-> IF bear THEN "Bearish Engulfing"
                   ELSE IF bull THEN "Bullish Engulfing" ELSE ""]

\* Morning and Evening Star, on the latest three candles
starPattern(c, p, pp) ==
  LET bodyC == RAbs(RSub(c.close, c.open))
      bodyP == RAbs(RSub(p.close, p.open))
      bodyPP == RAbs(RSub(pp.close, pp.open))
      small == RLt(bodyP, RMul(bodyPP, Q(3, 10)))
      large == RLt(RMul(bodyPP, Q(1, 2)), bodyC)
      morning == RLt(pp.close, pp.open) /\ small /\ RLt(c.open, c.close) /\ large
      evening == RLt(pp.open, pp.close) /\ small /\ RLt(c.close, c.open) /\ large
  IN  [bullish |-> morning, bearish |-> evening,
       pattern |-> IF evening THEN "Evening Star"
                   ELSE IF morning THEN "Morning Star" ELSE ""]

\* c, p and pp are klines[last], klines[last - 1] and klines[last - 2]:
\* undefined when the index is below 0, and read without a test
detectCandlestickPatterns(klines) ==
  LET last == Len(klines) - 1
  IN  IF last < 1 THEN Thrown
      ELSE LET c == klines[last + 1]
               p == klines[last]
               first == wickPattern(c)
               second == IF ~first.bullish /\ ~first.bearish
                         THEN engulfing(c, p) ELSE first
           IN  IF second.bullish \/ second.bearish
               THEN [thrown |-> FALSE, bullish |-> second.bullish,
                     bearish |-> second.bearish, pattern |-> second.pattern]
               ELSE IF last < 2 THEN Thrown
               ELSE LET third == starPattern(c, p, klines[last - 1])
                    IN  [thrown |-> FALSE, bullish |-> third.bullish,
                         bearish |-> third.bearish, pattern |-> third.pattern]

isChopZone(price, ema50Val, ema200Val) ==
  LET midpoint == NDiv(NAdd(ema50Val, ema200Val), Num(2))
      range == NAbs(NSub(ema50Val, ema200Val))
  IN  JsGt(range, Num(0)) /\ JsLt(NAbs(NSub(price, midpoint)), NMul(range, Q(1, 5)))

isLowVolumeEnvironment(volumes, lookback) ==
  LET last == Len(volumes) - 1
      from == IF last - lookback > 0 THEN last - lookback ELSE 0
      avgVol == NDiv(sum(slice(volumes, from, last)), Num(lookback))
  IN  JsLt(At(volumes, last), NMul(avgVol, Q(2, 5)))

\* analyzeMarket up to detectCandlestickPatterns: the call returns early in
\* a no-trade zone, throws with detectCandlestickPatterns, or goes on to
\* the keys and returns
analyzeKlines(klines) ==
  LET closes == [j \in 1..Len(klines) |-> klines[j].close]
      highs == [j \in 1..Len(klines) |-> klines[j].high]
      lows == [j \in 1..Len(klines) |-> klines[j].low]
      volumes == [j \in 1..Len(klines) |-> klines[j].volume]
      last == Len(closes) - 1
      price == At(closes, last)
      ind == calculateAllIndicators(closes, highs, lows, volumes)
      chopZone == isChopZone(price, At(ind.ema50, last), At(ind.ema200, last))
      lowVolume == isLowVolumeEnvironment(volumes, 50)
  IN  IF chopZone \/ lowVolume
      THEN [thrown |-> FALSE, noTradeZone |-> TRUE, rsi |-> At(ind.rsi, last)]
      ELSE [thrown |-> detectCandlestickPatterns(klines).thrown,
            noTradeZone |-> FALSE, rsi |-> At(ind.rsi, last)]

----------------------------------------------------------------------------
(* Candle series *)

MaxCandles == 30

MaxShort == 3

Kline(open, high, low, close, volume) ==
  [open |-> Num(open), high |-> Num(high), low |-> Num(low), close |-> Num(close),
   volume |-> Num(volume)]

\* a candle repeated without change
Steady == Kline(3, 4, 2, 3, 10)

\* a doji, a hammer, a shooting star, a falling and a rising candle, each
\* with and without volume
Klines ==
  {Kline(3, 3, 3, 3, v) : v \in {0, 10}} \cup {Kline(4, 5, 1, 5, v) : v \in {0, 10}}
    \cup {Kline(2, 5, 1, 1, v) : v \in {0, 10}} \cup {Kline(3, 3, 2, 2, v) : v \in {0, 10}}
    \cup {Kline(1, 4, 1, 4, v) : v \in {0, 10}}

\* series of the same candle, of every length up to MaxCandles
SteadySeries == {[j \in 1..n |-> Steady] : n \in 0..MaxCandles}

\* every series of up to MaxShort candles
ShortSeries == UNION {[1..n -> Klines] : n \in 0..MaxShort}

NoIndicators == [ema50 |-> <<>>]

IndicatorCalls ==
  [fn : {"calculateAllIndicators"}, klines : SteadySeries \cup ShortSeries,
   returned : {FALSE}, result : {NoIndicators}]

CallCalculateAllIndicators ==
  /\ call.fn = "calculateAllIndicators"
  /\ ~call.returned
  /\ call' = [call EXCEPT
                !.returned = TRUE,
                !.result = calculateAllIndicators(
                             [j \in 1..Len(call.klines) |-> call.klines[j].close],
                             [j \in 1..Len(call.klines) |-> call.klines[j].high],
                             [j \in 1..Len(call.klines) |-> call.klines[j].low],
                             [j \in 1..Len(call.klines) |-> call.klines[j].volume])]
  /\ UNCHANGED <<bot_config, bot_positions, bot_trades, bot_logs, nextId, response,
                 settlements, served, request, fault, ticks>>

NoOutcome == [thrown |-> FALSE, noTradeZone |-> FALSE, rsi |-> Null]

KlineCalls ==
  [fn : {"analyzeMarket"}, klines : SteadySeries \cup ShortSeries,
   returned : {FALSE}, result : {NoOutcome}]

CallAnalyzeKlines ==
  /\ call.fn = "analyzeMarket"
  /\ ~call.returned
  /\ call' = [call EXCEPT !.returned = TRUE, !.result = analyzeKlines(call.klines)]
  /\ UNCHANGED <<bot_config, bot_positions, bot_trades, bot_logs, nextId, response,
                 settlements, served, request, fault, ticks>>

----------------------------------------------------------------------------
(* Calls of the functions of the indicator library and of the dashboard *)

LibCalls == SignalCalls \cup IndicatorCalls \cup KlineCalls

InitLib ==
  /\ Deployed
  /\ fault = "none"
  /\ ticks = [i \in Invocations |-> Idle]
  /\ call \in LibCalls

NextLib ==
  \/ CallAnalyzeSignals
  \/ CallCalculateAllIndicators
  \/ CallAnalyzeKlines

SpecLib == InitLib /\ [][NextLib]_vars

----------------------------------------------------------------------------
(* The loop of calculateParabolicSAR, one pass at a time.  The pass at     *)
(* index i reads the candles i, i - 1 and i - 2 only, so the series is     *)
(* drawn candle by candle; the array sar is kept as its latest entry and   *)
(* its length i, and the loop may end after any pass.                      *)

MaxSarCandles == 12

\* the passes are followed while the denominator of sar stays within MaxDen
MaxDen == 2500

\* the candles of the series as <<high, low>>: a low of 3 under every high
\* from 3 to 13, the lows 2 and 1 under the lowest high
SarKlines == {<<h, 3>> : h \in 3..13} \cup {<<3, 2>>, <<3, 1>>}

\* before the first pass: sar = [lows[0]], ep = highs[0], and prev holds the
\* candles of the latest two indices
SarCalls ==
  {[fn |-> "calculateParabolicSAR", i |-> 1,
    s |-> sarStart(<<Num(k[1])>>, <<Num(k[2])>>, AF),
    prev |-> <<k, k>>] : k \in SarKlines}

InitSAR ==
  /\ Deployed
  /\ fault = "none"
  /\ ticks = [i \in Invocations |-> Idle]
  /\ call \in SarCalls

\* what the pass at index i reads, when k is the candle of index i and prev
\* holds the candles of i - 1 and of i - 2 (of i - 1 twice when i = 1)
sarReads(k, prev) ==
  [high |-> Num(k[1]), low |-> Num(k[2]),
   high1 |-> Num(prev[1][1]), low1 |-> Num(prev[1][2]),
   high2 |-> Num(prev[2][1]), low2 |-> Num(prev[2][2])]

\* the pass of the loop at index call.i, on the candle k
SarPass ==
  \E k \in SarKlines :
    LET next == sarStep(call.s, sarReads(k, call.prev), AF, MAX_AF)
    IN  /\ call.i < MaxSarCandles
        /\ next.sar[2] <= MaxDen
        /\ call' = [call EXCEPT !.i = call.i + 1, !.s = next,
                                !.prev = <<k, call.prev[1]>>]
        /\ UNCHANGED <<bot_config, bot_positions, bot_trades, bot_logs, nextId,
                       response, settlements, served, request, fault, ticks>>

NextSAR == SarPass

SpecSAR == InitSAR /\ [][NextSAR]_vars

----------------------------------------------------------------------------
(* Sequential ticks on an account whose config is any of a few within the  *)
(* documented ranges *)

RangedConfigs ==
  {[is_active |-> TRUE, current_balance |-> Num(1000), initial_balance |-> Num(1000),
    leverage |-> Num(l), position_size_pct |-> Num(s), stop_loss_pct |-> Num(10),
    take_profit_pct |-> Num(30)] : l \in {2}, s \in {25, 75}}

InitTicks ==
  /\ bot_config \in RangedConfigs
  /\ bot_positions = <<>>
  /\ bot_trades = <<>>
  /\ bot_logs = <<>>
  /\ nextId = 1
  /\ response = reply("", FALSE, Null, NoAnalysis)
  /\ settlements = <<>>
  /\ served = 0
  /\ request = ""
  /\ fault = "none"
  /\ ticks = [i \in Invocations |-> Idle]
  /\ call = NoCall

SpecTicks == InitTicks /\ [][Tick]_vars

----------------------------------------------------------------------------
(* Vocabulary of the properties *)

Rows(rows) == {rows[i] : i \in 1..Len(rows)}

RowOf(rows, id) == CHOOSE r \in Rows(rows) : r.id = id

Terminal(r) == r.status \in {"closed", "liquidated"}

Count(seq, x) == Cardinality({i \in 1..Len(seq) : seq[i] = x})

Messages(logs) == {logs[i].message : i \in 1..Len(logs)}

ExitMessages == {"LIQUIDATION", "STOP LOSS", "TAKE PROFIT", "SMART EXIT", "REVERSAL EXIT"}

\* the step is a tick
TickStep == served' # served /\ response'.executed

\* pnl and pnl_pct of a position at a price, as the specification defines them
SpecPnl(pos, price) ==
  IF pos.side = "long"
  THEN RMul(RSub(price, pos.entry_price), pos.quantity)
  ELSE RMul(RSub(pos.entry_price, price), pos.quantity)

SpecPnlPct(pos, price) == RMul(RDiv(SpecPnl(pos, price), pos.margin_used), Num(100))

\* the price is at or beyond the level, against (stop) or for (target) the side
StopCrossed(pos, price) ==
  IF pos.side = "long" THEN RLe(price, pos.stop_loss) ELSE RLe(pos.stop_loss, price)

TargetCrossed(pos, price) ==
  IF pos.side = "long" THEN RLe(pos.take_profit, price) ELSE RLe(price, pos.take_profit)

----------------------------------------------------------------------------
(* C1: after any sequence of requests served one after the other, at most *)
(* one position of the account has status 'open'.                          *)
C1_AtMostOneOpen ==
  Cardinality({i \in 1..Len(bot_positions) : bot_positions[i].status = "open"}) <= 1

\* a second position is open after the first one was closed
C1_Witness ==
  \E i, j \in 1..Len(bot_positions) :
    Terminal(bot_positions[i]) /\ bot_positions[j].status = "open"

(* C2, as amended: a closed or liquidated position is never changed by a   *)
(* later request, and its margin and pnl are applied to the balance at     *)
(* most once and never after its exit: once when a tick closed it, not at  *)
(* all when reset closed it.                                               *)
C2_TerminalFinal ==
  [][\A i \in 1..Len(bot_positions) :
       LET pos == bot_positions[i]
       IN  Terminal(pos) =>
             /\ \E j \in 1..Len(bot_positions') : bot_positions'[j] = pos
             /\ Count(settlements', pos.id) = Count(settlements, pos.id)
             /\ Count(settlements, pos.id) =
                  IF pos.exit_reason = "Bot reset" THEN 0 ELSE 1]_vars

\* a tick ran after a position was closed by an earlier tick, closing nothing
C2_Witness ==
  /\ response.executed
  /\ Messages(bot_logs) \cap ExitMessages = {}
  /\ \E r \in Rows(bot_positions) :
       Terminal(r) /\ r.exit_reason # "Bot reset" /\ Count(settlements, r.id) = 1

(* C2 as stated: a closed or liquidated position is never changed, and its *)
(* margin and pnl have been applied to the balance exactly once.           *)
C2_Original ==
  [][\A i \in 1..Len(bot_positions) :
       LET pos == bot_positions[i]
       IN  Terminal(pos) =>
             /\ \E j \in 1..Len(bot_positions') : bot_positions'[j] = pos
             /\ Count(settlements', pos.id) = 1]_vars

(* C3: in a tick, a position whose liquidation, stop-loss and take-profit  *)
(* conditions hold together gets the outcome of the earliest of them in    *)
(* that order; a tick crossing both stop and target closes by 'Stop Loss'. *)
C3_Priority ==
  [][TickStep =>
       \A i \in 1..Len(bot_positions) :
         LET pos == bot_positions[i]
             price == response'.price
             post == RowOf(bot_positions', pos.id)
             liq == RLe(SpecPnlPct(pos, price), Num(-90))
             sl == StopCrossed(pos, price)
             tp == TargetCrossed(pos, price)
         IN  pos.status = "open" =>
               /\ liq => post.status = "liquidated" /\ post.exit_reason = "Liquidation"
               /\ ~liq /\ sl => post.status = "closed" /\ post.exit_reason = "Stop Loss"
               /\ ~liq /\ ~sl /\ tp =>
                    post.status = "closed" /\ post.exit_reason = "Take Profit"]_vars

\* a position closed by 'Stop Loss' at a price that also crossed its target
C3_Witness ==
  \E r \in Rows(bot_positions) :
    /\ r.status = "closed" /\ r.exit_reason = "Stop Loss"
    /\ StopCrossed(r, r.exit_price) /\ TargetCrossed(r, r.exit_price)
    /\ ~RLe(SpecPnlPct(r, r.exit_price), Num(-90))

----------------------------------------------------------------------------
(* Vocabulary of the properties on one tick *)

TrailMessages == {"BREAK-EVEN", "ATR TRAIL"}

\* the trade rows the step appended
NewTrades == SubSeq(bot_trades', Len(bot_trades) + 1, Len(bot_trades'))

ExitActions == {"liquidation", "stop_loss", "take_profit", "close_long", "close_short"}

OpenActions == {"open_long", "open_short"}

\* the trade rows the step appended for the exit of position id
ExitTrades(id) ==
  {k \in 1..Len(NewTrades) :
     NewTrades[k].position_id = id /\ NewTrades[k].action \in ExitActions}

\* the balance the tick holds once the open positions are evaluated: the
\* balance_after of the last exit, the stored balance when there is none
LocalBalance ==
  LET exits == {k \in 1..Len(NewTrades) : NewTrades[k].action \in ExitActions}
  IN  IF exits = {} THEN bot_config.current_balance
      ELSE NewTrades[CHOOSE k \in exits : \A m \in exits : m <= k].balance_after

\* the step inserted a position
Opened == Len(bot_positions') > Len(bot_positions)

NewPos == bot_positions'[Len(bot_positions')]

(* C4, as amended: in one tick at most one of the five exits (liquidation,  *)
(* stop-loss, take-profit, smart early exit, signal reversal) is applied   *)
(* to an open position, the first whose condition holds in that order; the *)
(* trailing update is applied only when none of the first three holds, and *)
(* after it smart early exit and signal reversal are still evaluated.      *)
C4_OneExit ==
  [][TickStep =>
       \A i \in 1..Len(bot_positions) :
         LET pos == bot_positions[i]
             price == response'.price
             analysis == response'.analysis
             post == RowOf(bot_positions', pos.id)
             pnlPct == SpecPnlPct(pos, price)
             early == RLe(SpecPnlPct(pos, price), Num(-90))
                        \/ StopCrossed(pos, price) \/ TargetCrossed(pos, price)
             smart == smartExitReason(pos, pnlPct, analysis) # ""
             reversal == signalReversal(pos, analysis)
         IN  pos.status = "open" =>
               /\ Cardinality(ExitTrades(pos.id)) <= 1
               /\ Count(settlements', pos.id) <= 1
               /\ post.stop_loss # pos.stop_loss => ~early
               /\ early => post.exit_reason \in {"Liquidation", "Stop Loss", "Take Profit"}
               /\ ~early /\ smart =>
                    /\ post.status = "closed"
                    /\ post.exit_reason = smartExitReason(pos, pnlPct, analysis)
               /\ ~early /\ ~smart /\ reversal =>
                    post.status = "closed" /\ post.exit_reason = "Signal reversal"
               /\ ~early /\ ~smart /\ ~reversal => post.status = "open"]_vars

\* a tick moved the stop of a position and closed it by smart exit or reversal
C4_Witness ==
  /\ response.executed
  /\ Messages(bot_logs) \cap TrailMessages # {}
  /\ Messages(bot_logs) \cap {"SMART EXIT", "REVERSAL EXIT"} # {}

(* C4 as stated: in one tick at most one of the six transitions is applied *)
(* to an open position; when the trailing update changes the stop, neither *)
(* smart early exit nor signal reversal is applied to it.                  *)
C4_Original ==
  [][TickStep =>
       \A i \in 1..Len(bot_positions) :
         LET pos == bot_positions[i]
             post == RowOf(bot_positions', pos.id)
         IN  pos.status = "open" /\ post.stop_loss # pos.stop_loss =>
               post.status = "open"]_vars

(* C5: a tick that evaluates an open position with pnlPct <= -90 sets it    *)
(* 'liquidated' with pnl = -margin_used and pnl_pct = -100; with no other   *)
(* position change in the tick the stored balance drops by margin_used.    *)
C5_Liquidation ==
  [][TickStep =>
       \A i \in 1..Len(bot_positions) :
         LET pos == bot_positions[i]
             post == RowOf(bot_positions', pos.id)
         IN  pos.status = "open" /\ RLe(SpecPnlPct(pos, response'.price), Num(-90)) =>
               /\ post.status = "liquidated"
               /\ post.pnl = RNeg(pos.margin_used)
               /\ post.pnl_pct = Num(-100)
               /\ ~Opened =>
                    bot_config'.current_balance =
                      RSub(bot_config.current_balance, pos.margin_used)]_vars

\* a tick liquidated a position and opened none
C5_Witness ==
  /\ response.executed
  /\ "LIQUIDATION" \in Messages(bot_logs)
  /\ "OPEN" \notin Messages(bot_logs)
  /\ \E r \in Rows(bot_positions) : r.status = "liquidated" /\ r.exit_price = response.price

(* C6: every exit of a tick other than a liquidation sets status 'closed', *)
(* records pnl = (price - entry) * quantity for a long, (entry - price) *  *)
(* quantity for a short, pnl_pct = pnl / margin_used * 100, and adds       *)
(* margin_used + pnl to the balance.                                       *)
C6_Close ==
  [][TickStep =>
       \A i \in 1..Len(bot_positions) :
         LET pos == bot_positions[i]
             price == response'.price
             post == RowOf(bot_positions', pos.id)
             pnl == SpecPnl(pos, price)
             credited == RAdd(bot_config.current_balance, RAdd(pos.margin_used, pnl))
         IN  pos.status = "open" /\ post.status # "open"
               /\ post.exit_reason # "Liquidation" =>
               /\ post.status = "closed"
               /\ post.exit_price = price
               /\ post.pnl = pnl
               /\ post.pnl_pct = RMul(RDiv(pnl, pos.margin_used), Num(100))
               /\ \A k \in ExitTrades(pos.id) :
                    NewTrades[k].pnl = pnl /\ NewTrades[k].balance_after = credited
               /\ ExitTrades(pos.id) # {}
               /\ bot_config'.current_balance =
                    IF Opened THEN RSub(credited, NewPos.margin_used) ELSE credited]_vars

\* a tick closed a short position with a non-zero pnl
C6_Witness ==
  /\ response.executed
  /\ Messages(bot_logs) \cap (ExitMessages \ {"LIQUIDATION"}) # {}
  /\ \E r \in Rows(bot_positions) :
       /\ r.status = "closed" /\ r.side = "short"
       /\ r.exit_price = response.price /\ r.pnl # Num(0) /\ r.exit_reason # "Bot reset"

(* C7: the stored stop_loss of an open long never decreases and that of an *)
(* open short never increases; the stop is written only in a tick where   *)
(* the new value differs from the stored one.                              *)
C7_StopMonotone ==
  [][\A i \in 1..Len(bot_positions) :
       LET pos == bot_positions[i]
           post == RowOf(bot_positions', pos.id)
       IN  pos.status = "open" /\ (\E r \in Rows(bot_positions') : r.id = pos.id) =>
             /\ pos.side = "long" => RLe(pos.stop_loss, post.stop_loss)
             /\ pos.side = "short" => RLe(post.stop_loss, pos.stop_loss)
             /\ served' # served /\ Messages(bot_logs') \cap TrailMessages # {} =>
                  post.stop_loss # pos.stop_loss]_vars

\* a tick trailed the stop of an open long beyond its entry price
C7_Witness ==
  /\ response.executed
  /\ "ATR TRAIL" \in Messages(bot_logs)
  /\ \E r \in Rows(bot_positions) :
       r.status = "open" /\ r.side = "long" /\ RLt(r.entry_price, r.stop_loss)

(* C8: a tick creates a position only if, after the existing positions    *)
(* were evaluated, none is open and margin = balance * position_size_pct   *)
(* / 100 satisfies margin > 10 and balance > margin; it creates at most    *)
(* one.                                                                    *)
C8_EntryGuard ==
  [][TickStep /\ Opened =>
       LET margin == RMul(LocalBalance, RDiv(bot_config.position_size_pct, Num(100)))
       IN  /\ Len(bot_positions') = Len(bot_positions) + 1
           /\ \A i \in 1..Len(bot_positions) : bot_positions'[i].status # "open"
           /\ response'.analysis.entryAllowed
           /\ NewPos.margin_used = margin
           /\ RLt(Num(10), margin)
           /\ RLt(margin, LocalBalance)]_vars

\* a tick closed the open position and opened a new one
C8_Witness ==
  /\ response.executed
  /\ "OPEN" \in Messages(bot_logs)
  /\ Messages(bot_logs) \cap ExitMessages # {}
  /\ bot_positions[Len(bot_positions)].status = "open"

(* C9: the position a tick opens has margin_used = margin, quantity =      *)
(* margin * leverage / price and entry_price = the tick price; the balance *)
(* is reduced by margin and one open_long/open_short trade row is appended *)
(* whose balance_after is the new balance.                                 *)
C9_Open ==
  [][TickStep /\ Opened =>
       LET margin == RMul(LocalBalance, RDiv(bot_config.position_size_pct, Num(100)))
           price == response'.price
           opens == {k \in 1..Len(NewTrades) : NewTrades[k].action \in OpenActions}
       IN  /\ NewPos.status = "open"
           /\ NewPos.margin_used = margin
           /\ NewPos.leverage = bot_config.leverage
           /\ NewPos.quantity = RDiv(RMul(margin, bot_config.leverage), price)
           /\ NewPos.entry_price = price
           /\ bot_config'.current_balance = RSub(LocalBalance, margin)
           /\ opens = {Len(NewTrades)}
           /\ LET t == NewTrades[Len(NewTrades)]
              IN  /\ t.position_id = NewPos.id
                  /\ t.action = IF NewPos.side = "long" THEN "open_long" ELSE "open_short"
                  /\ t.price = price
                  /\ t.quantity = NewPos.quantity
                  /\ t.balance_after = bot_config'.current_balance]_vars

\* a tick that found no open position opened one
C9_Witness ==
  /\ response.executed
  /\ "OPEN" \in Messages(bot_logs)
  /\ Messages(bot_logs) \cap ExitMessages = {}
  /\ bot_trades # <<>>
  /\ bot_trades[Len(bot_trades)].action \in OpenActions
  /\ bot_trades[Len(bot_trades)].balance_after = bot_config.current_balance

(* C10, as amended: when the risk-reward validator rejects the entry, the  *)
(* entry block creates no position, appends no open trade row and debits   *)
(* nothing: positions, trades and balance are as the evaluation of the     *)
(* open positions left them, and unchanged when the tick closed or         *)
(* liquidated none, the log lines then being the rejection and the Tick    *)
(* summary.                                                                *)
C10_Discard ==
  [][TickStep /\ "TRADE DISCARDED" \in Messages(bot_logs') =>
       /\ ~Opened
       /\ \A k \in 1..Len(NewTrades) : NewTrades[k].action \notin OpenActions
       /\ bot_config'.current_balance = LocalBalance
       /\ Messages(bot_logs') \cap ExitMessages = {} =>
            /\ bot_positions' = bot_positions
            /\ bot_trades' = bot_trades
            /\ bot_config' = bot_config
            /\ Messages(bot_logs') = {"TRADE DISCARDED", "Tick"}]_vars

\* a tick with no open position had its entry rejected
C10_Witness ==
  /\ response.executed
  /\ response.analysis.entryAllowed
  /\ "TRADE DISCARDED" \in Messages(bot_logs)
  /\ Messages(bot_logs) \cap ExitMessages = {}

(* C10 as stated: when the risk-reward validator rejects the entry, the    *)
(* tick creates no position, appends no trade row and does not change the *)
(* balance.                                                                *)
C10_Original ==
  [][TickStep /\ "TRADE DISCARDED" \in Messages(bot_logs') =>
       /\ bot_positions' = bot_positions
       /\ bot_trades' = bot_trades
       /\ bot_config'.current_balance = bot_config.current_balance]_vars

----------------------------------------------------------------------------
\* |a - b| of two levels
Dist(a, b) == IF a >= b THEN a - b ELSE b - a

(* C11: validateRiskReward returns valid = FALSE when entry equals stop,   *)
(* valid = TRUE when |target - entry| / |entry - stop| is equal to or      *)
(* greater than minRatio, and valid = FALSE when the ratio is below it.    *)
C11_Validator ==
  call.fn = "validateRiskReward" /\ call.returned =>
    LET risk == Dist(call.entryPrice, call.stopLoss)
        reward == Dist(call.takeProfit, call.entryPrice)
    IN  /\ risk = 0 => ~call.result.valid
        /\ risk # 0 /\ reward >= call.minRatio * risk => call.result.valid
        /\ risk # 0 /\ reward < call.minRatio * risk => ~call.result.valid

\* a call whose ratio is exactly minRatio was accepted
C11_Witness ==
  /\ call.fn = "validateRiskReward" /\ call.returned
  /\ call.entryPrice # call.stopLoss
  /\ Dist(call.takeProfit, call.entryPrice) =
       call.minRatio * Dist(call.entryPrice, call.stopLoss)
  /\ call.result.valid

(* C12, as amended: analyzeMarket returns entryAllowed = TRUE only if the   *)
(* chop zone and low volume filters are off and either bullKeys >= 3 with   *)
(* long context and an RSI that is not above 75, or bearKeys >= 3 with      *)
(* short context and an RSI that is not below 25, an RSI that is NaN        *)
(* blocking neither side; with chop zone or low volume it returns           *)
(* entryAllowed = FALSE and bias neutral whatever the key counts are.       *)
C12_EntryGate ==
  call.fn = "analyzeMarket" /\ call.returned =>
    LET in == call.in
        rsiAbove75 == in.rsi # Null /\ ~RLe(in.rsi, Num(75))
        rsiBelow25 == in.rsi # Null /\ ~RLe(Num(25), in.rsi)
    IN  /\ call.result.entryAllowed =>
             /\ ~in.chopZone /\ ~in.lowVolume
             /\ \/ in.bullKeys >= 3 /\ in.longContext /\ ~rsiAbove75
                \/ in.bearKeys >= 3 /\ in.shortContext /\ ~rsiBelow25
        /\ in.chopZone \/ in.lowVolume =>
             ~call.result.entryAllowed /\ call.result.bias = "neutral"

\* a bearish entry was allowed at the boundary RSI of 25
C12_Witness ==
  /\ call.fn = "analyzeMarket" /\ call.returned
  /\ call.result.entryAllowed /\ call.result.bias = "bearish"
  /\ call.in.rsi = Num(25) /\ call.in.bullKeys >= 3 /\ ~call.in.longContext

(* C12 as stated: entryAllowed = TRUE only if not chop zone, not low        *)
(* volume, and either (bullKeys >= 3, long context, RSI <= 75) or           *)
(* (bearKeys >= 3, short context, RSI >= 25); chop zone or low volume give  *)
(* entryAllowed = FALSE and bias neutral.                                   *)
C12_Original ==
  call.fn = "analyzeMarket" /\ call.returned =>
    LET in == call.in
        rsiLe75 == in.rsi # Null /\ RLe(in.rsi, Num(75))
        rsiGe25 == in.rsi # Null /\ RLe(Num(25), in.rsi)
    IN  /\ call.result.entryAllowed =>
             /\ ~in.chopZone /\ ~in.lowVolume
             /\ \/ in.bullKeys >= 3 /\ in.longContext /\ rsiLe75
                \/ in.bearKeys >= 3 /\ in.shortContext /\ rsiGe25
        /\ in.chopZone \/ in.lowVolume =>
             ~call.result.entryAllowed /\ call.result.bias = "neutral"

(* C13: ticks of one account are serialized: at no time are two            *)
(* invocations both between their read of the open positions and balance   *)
(* and their final write of current_balance.                               *)
C13_Serialized ==
  Cardinality({i \in Invocations : ticks[i].pc = "running"}) <= 1

(* C14: a tick that fails at any step leaves the positions, the trades and *)
(* current_balance exactly as they were before it began.                   *)
C14_AllOrNothing ==
  [][served' # served /\ fault' \in {"klines", "balance_write"} =>
       /\ bot_positions' = bot_positions
       /\ bot_trades' = bot_trades
       /\ bot_config'.current_balance = bot_config.current_balance]_vars

(* C15: a tick whose market-data fetch fails, and a reset whose price fetch *)
(* fails, answers with an error and has written nothing: no position,      *)
(* trade, log or config row is created or changed.                         *)
C15_FetchFailure ==
  [][served' # served /\ fault' \in {"klines", "price"} =>
       /\ response' = errorReply
       /\ bot_positions' = bot_positions
       /\ bot_trades' = bot_trades
       /\ bot_logs' = <<>>
       /\ bot_config' = bot_config]_vars

\* the step is a tick that follows a tick, on the same candles
RepeatedTick ==
  /\ TickStep
  /\ response.executed
  /\ response'.price = response.price
  /\ response'.analysis = response.analysis

(* C16: a tick that follows a tick with the same config and the same       *)
(* candles, nothing else changing in between, opens no position, closes or *)
(* liquidates none, and leaves current_balance and every stop_loss as the  *)
(* first tick left them.                                                   *)
C16_Idempotent ==
  [][RepeatedTick =>
       /\ bot_positions' = bot_positions
       /\ bot_trades' = bot_trades
       /\ bot_config' = bot_config]_vars

SmartReasons ==
  {"RSI overbought", "RSI oversold", "MACD bearish momentum", "MACD bullish momentum"}

\* the position is not liquidated, stopped or taken at the price: the tick
\* reaches its smart-early-exit step
ReachesSmartExit(pos, price) ==
  /\ pos.status = "open"
  /\ ~RLe(SpecPnlPct(pos, price), Num(-90))
  /\ ~StopCrossed(pos, price)
  /\ ~TargetCrossed(pos, price)

(* C17, as amended: a long that reaches the smart-early-exit step with     *)
(* pnlPct >= 20, a negative MACD histogram and a negative score (bearish   *)
(* bias) is closed by smart early exit even when RSI is not above 75,      *)
(* symmetrically a short with a positive histogram, a positive score and   *)
(* RSI not below 25; a histogram against the position without a score      *)
(* against it closes nothing; with pnlPct < 15 no smart early exit happens. *)
C17_SmartExit ==
  [][TickStep =>
       \A i \in 1..Len(bot_positions) :
         LET pos == bot_positions[i]
             price == response'.price
             a == response'.analysis
             post == RowOf(bot_positions', pos.id)
             pnlPct == SpecPnlPct(pos, price)
             rsiAgainst == IF pos.side = "long" THEN ~RLe(a.rsi, Num(75))
                           ELSE ~RLe(Num(25), a.rsi)
             macdAgainst == IF pos.side = "long" THEN ~RLe(Num(0), a.macdHist)
                            ELSE ~RLe(a.macdHist, Num(0))
             scoreAgainst == IF pos.side = "long" THEN ~RLe(Num(0), a.score)
                             ELSE ~RLe(a.score, Num(0))
         IN  ReachesSmartExit(pos, price) =>
               /\ RLe(Num(20), pnlPct) /\ macdAgainst /\ scoreAgainst /\ ~rsiAgainst =>
                    /\ post.status = "closed"
                    /\ post.exit_reason = IF pos.side = "long" THEN "MACD bearish momentum"
                                          ELSE "MACD bullish momentum"
               /\ RLe(Num(20), pnlPct) /\ macdAgainst /\ ~scoreAgainst /\ ~rsiAgainst =>
                    post.exit_reason \notin SmartReasons
               /\ ~RLe(Num(15), pnlPct) => post.exit_reason \notin SmartReasons]_vars

\* a tick closed a long by the MACD branch of the smart early exit
C17_Witness ==
  /\ response.executed
  /\ "SMART EXIT" \in Messages(bot_logs)
  /\ \E r \in Rows(bot_positions) :
       /\ r.side = "long" /\ r.status = "closed"
       /\ r.exit_reason = "MACD bearish momentum"
       /\ r.exit_price = response.price
       /\ RLe(response.analysis.rsi, Num(75))

(* C17 as stated: a long that reaches the smart-early-exit step with       *)
(* pnlPct >= 20 and a negative MACD histogram is closed by smart early     *)
(* exit even when RSI is not above 75, symmetrically a short with a        *)
(* positive histogram; with pnlPct < 15 no smart early exit happens.       *)
C17_Original ==
  [][TickStep =>
       \A i \in 1..Len(bot_positions) :
         LET pos == bot_positions[i]
             price == response'.price
             a == response'.analysis
             post == RowOf(bot_positions', pos.id)
             pnlPct == SpecPnlPct(pos, price)
             macdAgainst == IF pos.side = "long" THEN ~RLe(Num(0), a.macdHist)
                            ELSE ~RLe(a.macdHist, Num(0))
         IN  ReachesSmartExit(pos, price) =>
               /\ RLe(Num(20), pnlPct) /\ macdAgainst =>
                    post.status = "closed" /\ post.exit_reason \in SmartReasons
               /\ ~RLe(Num(15), pnlPct) => post.exit_reason \notin SmartReasons]_vars

\* the step is a reset that completed
ResetStep == served' # served /\ response'.message = "Bot reset"

(* C18: after a reset, no position of the account is open, every position *)
(* that was open is closed with exit_price equal to the fetched price,    *)
(* current_balance equals initial_balance and is_active is false.         *)
C18_Reset ==
  [][ResetStep =>
       /\ \A j \in 1..Len(bot_positions') : bot_positions'[j].status # "open"
       /\ Len(bot_positions') = Len(bot_positions)
       /\ \E p \in Prices :
            \A i \in 1..Len(bot_positions) :
              LET pos == bot_positions[i]
                  post == bot_positions'[i]
              IN  IF pos.status = "open"
                  THEN /\ post.id = pos.id
                       /\ post.status = "closed"
                       /\ post.exit_price = Num(p)
                       /\ post.pnl = SpecPnl(pos, Num(p))
                  ELSE post = pos
       /\ bot_config'.current_balance = bot_config.initial_balance
       /\ bot_config'.initial_balance = bot_config.initial_balance
       /\ bot_config'.is_active = FALSE]_vars

\* a reset closed an open position at a price other than its entry price
C18_Witness ==
  /\ response.message = "Bot reset"
  /\ ~bot_config.is_active
  /\ bot_config.current_balance = bot_config.initial_balance
  /\ \E r \in Rows(bot_positions) :
       r.status = "closed" /\ r.exit_reason = "Bot reset" /\ r.exit_price # r.entry_price

\* the step serves a request that is neither 'run' nor a manual action
PollStep == served' # served /\ request' = "poll"

\* the step serves a 'run' request
RunStep == served' # served /\ request' = "run"

(* C19: while is_active is false, a request that is neither 'run' nor a    *)
(* manual action changes no position, trade, log or balance; a 'run'       *)
(* request executes a tick whatever is_active is, and a tick does not      *)
(* change is_active.                                                       *)
C19_RunInactive ==
  [][/\ (PollStep /\ ~bot_config.is_active) =>
          (/\ ~response'.executed
           /\ bot_positions' = bot_positions
           /\ bot_trades' = bot_trades
           /\ bot_logs' = <<>>
           /\ bot_config' = bot_config)
     /\ RunStep => response'.executed
     /\ TickStep => (bot_config'.is_active = bot_config.is_active)]_vars

\* a 'run' request executed a tick while the bot was inactive, and the tick
\* opened a position
C19_Witness ==
  /\ request = "run"
  /\ response.executed
  /\ ~bot_config.is_active
  /\ "OPEN" \in Messages(bot_logs)

\* a stored value lies between lo / 2 and hi
InRange(x, lo, hi) == x # Null /\ RLe(<<lo, 2>>, x) /\ RLe(x, Num(hi))

(* C20: after any sequence of update_config requests the stored config     *)
(* has leverage in 1..125, position_size_pct in 1..100, stop_loss_pct in   *)
(* 0.5..100 and take_profit_pct in 0.5..100: a value outside its range is  *)
(* not stored.                                                             *)
C20_ConfigInRange ==
  /\ InRange(bot_config.leverage, 2, 125)
  /\ InRange(bot_config.position_size_pct, 2, 100)
  /\ InRange(bot_config.stop_loss_pct, 1, 100)
  /\ InRange(bot_config.take_profit_pct, 1, 100)

----------------------------------------------------------------------------
\* the trade rows the step appended for position id
TradesOf(id) == {k \in 1..Len(NewTrades) : NewTrades[k].position_id = id}

(* C21: every position open, every position close or liquidation, by a     *)
(* tick or by reset, and every persisted change of stop_loss appends a     *)
(* trade record for that position in the same request.                     *)
C21_AuditTrail ==
  [][Len(bot_trades') >= Len(bot_trades) =>
       \A j \in 1..Len(bot_positions') :
         LET post == bot_positions'[j]
         IN  /\ (\A r \in Rows(bot_positions) : r.id # post.id) =>
                  \E k \in TradesOf(post.id) : NewTrades[k].action \in OpenActions
             /\ \A r \in Rows(bot_positions) :
                  r.id = post.id =>
                    /\ (r.status = "open" /\ post.status # "open") =>
                         ExitTrades(post.id) # {}
                    /\ post.stop_loss # r.stop_loss => TradesOf(post.id) # {}]_vars

\* the log lines that name the cause of a skipped entry
SkipMessages == {"NO TRADE", "TRADE DISCARDED"}

(* C22: every tick that ends with no open position and opened none writes, *)
(* besides the 'Tick' summary line, a log line that names the cause of the *)
(* skipped entry.                                                          *)
C22_SkipLogged ==
  [][(TickStep /\ ~Opened /\ selectOpen(bot_positions') = <<>>) =>
       /\ "Tick" \in Messages(bot_logs')
       /\ \E k \in 1..Len(bot_logs') :
            /\ bot_logs'[k].message \in SkipMessages
            /\ bot_logs'[k].detail # ""]_vars

----------------------------------------------------------------------------
\* the names of the signals a call of analyzeSignals returned
Voted == {call.result.signals[k].name : k \in 1..Len(call.result.signals)}

\* the readings the indicator of a signal takes are all defined
HasData(name, ind) ==
  CASE name = "RSI" -> ind.rsi # Null
    [] name = "MACD" -> ind.macdVal # Null /\ ind.macdSig # Null
    [] name = "EMA 50/200" -> ind.ema50 # Null /\ ind.ema200 # Null
    [] name = "Bollinger" -> ind.bbUp # Null /\ ind.bbLow # Null
    [] name = "Stochastic" -> ind.stochK # Null
    [] name = "ADX" -> ind.adx # Null
    [] name = "Williams %R" -> ind.wr # Null
    [] name = "CMF" -> ind.cmf # Null
    [] name = "Parabolic SAR" -> ind.sar # Null
    [] name = "OBV" -> ind.obvLast # Null /\ ind.obvPrev # Null
    [] name = "ATR" -> ind.atr # Null

(* C23: analyzeSignals counts an indicator, in total and in the bullish or *)
(* bearish tally, only when the data it reads is defined; an indicator     *)
(* lacking data, as OBV on fewer than 11 candles, casts no vote.           *)
C23_DataOnly ==
  (call.fn = "analyzeSignals" /\ call.returned) =>
    \A name \in Voted : HasData(name, call.ind)

----------------------------------------------------------------------------
\* the arrays a call of calculateAllIndicators returned
Arrays(r) ==
  {r.ema50, r.ema200, r.sma20, r.rsi, r.macd.macdLine, r.macd.signalLine,
   r.macd.histogram, r.bollingerBands.upper, r.bollingerBands.middle,
   r.bollingerBands.lower, r.stochastic.k, r.stochastic.d, r.atr, r.obv,
   r.williamsR, r.adx.adx, r.adx.plusDI, r.adx.minusDI, r.parabolicSAR, r.cmf,
   r.vwap}

(* C25: for every candle count n >= 1, every array that                    *)
(* calculateAllIndicators returns has exactly n entries; in particular     *)
(* calculateRSI returns n entries when n <= 14.                            *)
C25_Lengths ==
  (call.fn = "calculateAllIndicators" /\ call.returned /\ Len(call.klines) >= 1) =>
    \A a \in Arrays(call.result) : Len(a) = Len(call.klines)

(* C24: analyzeMarket on a candle series of any length below the warm-up,  *)
(* 0, 1 or 2 candles included, does not throw: it returns an analysis and  *)
(* the tick completes rather than answering with an error.                 *)
C24_NoThrow ==
  (call.fn = "analyzeMarket" /\ call.returned) => ~call.result.thrown

----------------------------------------------------------------------------
\* the step is a pass of the loop of calculateParabolicSAR
PassStep == call.fn = "calculateParabolicSAR" /\ call'.i = call.i + 1

\* the trend after the pass is not the trend before it
Flip == call'.s.isUpTrend # call.s.isUpTrend

\* the candidate SAR of the pass: the previous SAR moved towards the extreme
\* point by the acceleration factor, kept on its side of the latest two candles
Candidate ==
  LET s == call.s
      k1 == call.prev[1]
      k2 == call.prev[2]
      moved == RAdd(s.sar, RMul(s.currentAf, RSub(s.ep, s.sar)))
  IN  IF s.isUpTrend
      THEN RMin(moved, RMin(Num(k1[2]), Num(k2[2])))
      ELSE RMax(moved, RMax(Num(k1[1]), Num(k2[1])))

(* C26: in calculateParabolicSAR the acceleration factor stays within      *)
(* [0.02, 0.2]; it starts at 0.02, is reset to 0.02 at every trend flip,   *)
(* and otherwise changes only in a pass that sets a new extreme point,     *)
(* where it grows by 0.02 capped at 0.2.  A flip happens exactly when the  *)
(* candidate SAR is above the current low in an uptrend or below the       *)
(* current high in a downtrend, and the SAR at a flip is the previous      *)
(* extreme point.                                                          *)
C26_Acceleration ==
  [][PassStep =>
       LET s == call.s
           t == call'.s
           high == Num(call'.prev[1][1])
           low == Num(call'.prev[1][2])
           crossed == IF s.isUpTrend THEN RLt(low, Candidate) ELSE RLt(Candidate, high)
       IN  /\ call.i = 1 => s.currentAf = Q(1, 50)
           /\ RLe(Q(1, 50), t.currentAf) /\ RLe(t.currentAf, Q(1, 5))
           /\ Flip <=> crossed
           /\ Flip => t.currentAf = Q(1, 50) /\ t.sar = s.ep
           /\ ~Flip =>
                /\ t.sar = Candidate
                /\ t.ep = s.ep => t.currentAf = s.currentAf
                /\ t.ep # s.ep =>
                     /\ t.currentAf = RMin(RAdd(s.currentAf, Q(1, 50)), Q(1, 5))
                     /\ IF s.isUpTrend THEN t.ep = high /\ RLt(s.ep, high)
                                       ELSE t.ep = low /\ RLt(low, s.ep)]_vars

\* ten passes without a flip, each with a higher high: the factor grew nine
\* times to its cap and the tenth new extreme point left it there
C26_Witness ==
  /\ call.fn = "calculateParabolicSAR"
  /\ call.i = 11
  /\ call.s.isUpTrend
  /\ call.s.ep = Num(13)
  /\ call.prev = <<(<<13, 3>>), (<<12, 3>>)>>
  /\ call.s.currentAf = Q(1, 5)

----------------------------------------------------------------------------
\* the trade rows that record the opening of position id, when the balance
\* has not changed since
OpenTrades(id) ==
  {k \in 1..Len(bot_trades) :
     /\ bot_trades[k].position_id = id
     /\ bot_trades[k].action \in OpenActions
     /\ bot_trades[k].balance_after = bot_config.current_balance}

(* C27: when a position opened by a tick is closed or liquidated by a      *)
(* later tick, with no other change of the balance in between, the balance *)
(* after the settlement is the balance just before the opening plus the    *)
(* pnl recorded on the position; a liquidation costs the account exactly   *)
(* margin_used.                                                            *)
C27_Conserved ==
  [][TickStep =>
       \A pos \in Rows(bot_positions) :
         pos.status = "open" =>
           \A k \in OpenTrades(pos.id), e \in ExitTrades(pos.id) :
             NewTrades[e].balance_after =
               RAdd(RAdd(bot_trades[k].balance_after, pos.margin_used),
                    RowOf(bot_positions', pos.id).pnl)]_vars

(* C28: current_balance is never negative: from a non-negative balance,    *)
(* after any sequence of sequential ticks at any prices, under any config  *)
(* with position_size_pct in 1..100 and leverage in 1..125, the stored     *)
(* current_balance is at least 0.                                          *)
C28_NonNegative == RLe(Num(0), bot_config.current_balance)

\* the positions of the account that are open
OpenNow == {i \in 1..Len(bot_positions) : bot_positions[i].status = "open"}

(* C29: under any interleaving of the steps of two tick invocations the    *)
(* account never has two open positions, and no position's settlement is   *)
(* reflected twice in the balance that is written.                         *)
C29_Exclusive ==
  /\ Cardinality(OpenNow) <= 1
  /\ \A i \in 1..Len(settlements) : Count(settlements, settlements[i]) <= 1

(* C30: a reset is not undone by a tick that was already running: once the *)
(* reset and every tick that was under way have finished, current_balance  *)
(* equals initial_balance and no position is open.                         *)
C30_ResetStands ==
  (request = "reset" /\ \A i \in Invocations : ticks[i].pc = "idle") =>
    /\ bot_config.current_balance = bot_config.initial_balance
    /\ OpenNow = {}

====
